---------------------------- MODULE Spec2Model ----------------------------
(***************************************************************************)
(* Model of the widgets of @doyosi/laravel:                                *)
(*   AjaxDivBox  (src/src/AjaxDivBox.js)                                   *)
(*   AjaxTable   (src/unnamed/part_004, src/unnamed/part_005)              *)
(*   SelectMultipleDropdown, ImageInput (src/src/SelectMultipleDropdown.js)*)
(*   DeleteContent (src/unnamed/part_003)                                  *)
(*   FormSubmit  (src/src/FormSubmit.js, src/unnamed/part_002)             *)
(*   EditContent (src/unnamed/part_005)                                    *)
(* Strings are sequences of one-character strings, JavaScript objects are  *)
(* sequences of key/value entries in insertion order.                      *)
(***************************************************************************)
EXTENDS Integers, Sequences, FiniteSets, TLC

VARIABLES
    qFilters,   \* query builder: this.filters
    qParams,    \* query builder: config.additionalParams ([fn |-> BOOLEAN, ret |-> object])
    qPage,      \* query builder: the page argument
    qOut,       \* query builder: the string returned by _buildQueryString
    qPc,        \* query builder: "input" before the call, "built" after it
    opt,        \* widget: the constructor's options, fixed at construction
    listening,  \* widget: _bindFilterEvents attached its listener to the filter region
    phase,      \* widget: "new" inside the constructor, "ready" once it returned,
                \* "threw" once it threw
    thrower,    \* widget: the event whose registered handler throws, "none" if none does
    dom,        \* widget: the resolved elements (hidden classes, contents)
    filters,    \* widget: this.filters
    lastMeta,   \* widget: this.lastMeta
    inputs,     \* the values of the named inputs inside the filter region
    timers,     \* the pending setTimeout callbacks: the milliseconds each has left
    debounceTimer, \* widget: this.debounceTimer: what the timer it names has left
                \* (-1: null, or a timer that ran or was cleared)
    calls,      \* the fetchData invocations awaiting their response, in call order
    started,    \* history: the fetchData invocation made last, until a response arrives
    settled,    \* history: the invocation whose response arrived, until the next call
    burst,      \* history: the time since the last filter event, the fetches since
    args,       \* one function alone: its arguments
    result,     \* one function alone: what it returned
    pc,         \* one function alone: "input" before the call, the call made after it
    selectMultiple, \* SelectMultipleDropdown: config, selections, disabledOptions, checkboxes
    deleteContent,  \* DeleteContent: the instance, its modals, its requests and timers
    imageInput,     \* ImageInput: the file input, the preview image, the pending reads
    formSubmit,     \* FormSubmit: the instance, its button, its pending submissions
    editContent     \* EditContent: the instance, its form, its pending edit requests

queryVars == <<qFilters, qParams, qPage, qOut, qPc>>

pureVars == <<args, result, pc>>

widgetVars == <<selectMultiple, deleteContent, imageInput, formSubmit, editContent>>

ajaxVars == <<opt, listening, phase, thrower, dom, filters, lastMeta, inputs, timers,
              debounceTimer, calls, started, settled, burst>>

(***************************************************************************)
(* Strings and JavaScript values                                           *)
(***************************************************************************)

\* A JavaScript value: t is its type tag, v its text (for a number its digits).
Str(s) == [t |-> "str", v |-> s]

Num(s) == [t |-> "num", v |-> s]

Null == [t |-> "null", v |-> <<>>]

Undefined == [t |-> "undef", v |-> <<>>]

\* An object value: f maps its own keys to their values.
Obj(f) == [t |-> "obj", v |-> <<"[object Object]">>, f |-> f]

\* String(v) as URLSearchParams and String.prototype.replace apply it to a value.
JsString(val) == val.v

RECURSIVE Concat(_)
Concat(ss) == IF ss = <<>> THEN <<>> ELSE Head(ss) \o Concat(Tail(ss))

RECURSIVE Join(_, _)
Join(ss, sep) ==
    IF ss = <<>> THEN <<>>
    ELSE IF Len(ss) = 1 THEN Head(ss)
    ELSE Head(ss) \o sep \o Join(Tail(ss), sep)

\* Index of the first occurrence of c in s, 0 when there is none.
RECURSIVE IndexOf(_, _, _)
IndexOf(s, c, i) ==
    IF i > Len(s) THEN 0
    ELSE IF s[i] = c THEN i
    ELSE IndexOf(s, c, i + 1)

RECURSIVE Split(_, _)
Split(s, c) ==
    LET i == IndexOf(s, c, 1)
    IN  IF i = 0 THEN <<s>>
        ELSE <<SubSeq(s, 1, i - 1)>> \o Split(SubSeq(s, i + 1, Len(s)), c)

(***************************************************************************)
(* JavaScript objects: ordered entries with unique keys                    *)
(***************************************************************************)

HasKey(obj, key) == \E i \in DOMAIN obj : obj[i].k = key

\* obj[key] = val: an existing key keeps its position, a new key is appended.
ObjSet(obj, key, val) ==
    IF HasKey(obj, key)
    THEN [i \in DOMAIN obj |-> IF obj[i].k = key THEN [k |-> key, v |-> val] ELSE obj[i]]
    ELSE Append(obj, [k |-> key, v |-> val])

\* { ...a, ...b }
RECURSIVE Spread(_, _)
Spread(a, b) ==
    IF b = <<>> THEN a
    ELSE Spread(ObjSet(a, Head(b).k, Head(b).v), Tail(b))

(***************************************************************************)
(* URLSearchParams: application/x-www-form-urlencoded                      *)
(***************************************************************************)

\* The serializer's byte encoding: a space is '+', the characters outside the
\* urlencoded set are percent-encoded, the others are kept.
EncodeChar(c) ==
    CASE c = " " -> <<"+">>
      [] c = "&" -> <<"%", "2", "6">>
      [] c = "=" -> <<"%", "3", "D">>
      [] c = "+" -> <<"%", "2", "B">>
      [] c = "%" -> <<"%", "2", "5">>
      [] OTHER   -> <<c>>

RECURSIVE Serialize(_)
Serialize(s) == IF s = <<>> THEN <<>> ELSE EncodeChar(Head(s)) \o Serialize(Tail(s))

\* new URLSearchParams(entries).toString()
URLSearchParamsToString(entries) ==
    Join([i \in DOMAIN entries |->
            Serialize(entries[i].k) \o <<"=">> \o Serialize(JsString(entries[i].v))],
         <<"&">>)

\* The byte a percent-escape stands for, <<>> when it is no escape of the model.
HexByte(h, l) ==
    CASE h = "2" /\ l = "6" -> <<"&">>
      [] h = "3" /\ l = "D" -> <<"=">>
      [] h = "2" /\ l = "B" -> <<"+">>
      [] h = "2" /\ l = "5" -> <<"%">>
      [] OTHER -> <<>>

\* The parser's decoding of one name or value: '+' is a space, %XX is a byte,
\* a '%' that starts no escape is kept.
RECURSIVE Decode(_)
Decode(s) ==
    IF s = <<>> THEN <<>>
    ELSE IF Head(s) = "+" THEN <<" ">> \o Decode(Tail(s))
    ELSE IF Head(s) = "%" /\ Len(s) >= 3 /\ HexByte(s[2], s[3]) # <<>>
         THEN HexByte(s[2], s[3]) \o Decode(SubSeq(s, 4, Len(s)))
    ELSE <<Head(s)>> \o Decode(Tail(s))

\* The parser: the sequences between '&', the empty ones skipped, each split at
\* its first '='.
ParsePair(p) ==
    LET i == IndexOf(p, "=", 1)
    IN  IF i = 0 THEN [k |-> Decode(p), v |-> <<>>]
        ELSE [k |-> Decode(SubSeq(p, 1, i - 1)), v |-> Decode(SubSeq(p, i + 1, Len(p)))]

ParseQuery(s) ==
    LET parts == Split(s, "&")
        kept  == SelectSeq(parts, LAMBDA p : p # <<>>)
    IN  [i \in DOMAIN kept |-> ParsePair(kept[i])]

(***************************************************************************)
(* _buildQueryString                                                       *)
(***************************************************************************)

PageKey == <<"p", "a", "g", "e">>

\* ([, v]) => v !== '' && v != null
KeepEntry(e) == ~(e.v.t = "str" /\ e.v.v = <<>>) /\ e.v.t \notin {"null", "undef"}

\* additionalParams is [fn |-> TRUE, ret |-> the object it returns] when it is a
\* function, [fn |-> FALSE, ret |-> <<>>] otherwise.
buildQueryString(flt, additionalParams, page) ==
    LET params0 == ObjSet(flt, PageKey, page)
        params  == IF additionalParams.fn THEN Spread(params0, additionalParams.ret)
                   ELSE params0
    IN  URLSearchParamsToString(SelectSeq(params, KeepEntry))

\* encodeURIComponent
encodeURIComponent(str) ==
    Concat([i \in DOMAIN str |->
              IF str[i] = " " THEN <<"%", "2", "0">> ELSE
              IF str[i] = "+" THEN <<"%", "2", "B">> ELSE EncodeChar(str[i])])

\* _buildQueryString(page) of the AjaxTable of part_005: {...this.filters, page}
\* as key=value pairs joined by '&'.
buildQueryStringLegacy(flt, page) ==
    LET params == ObjSet(flt, PageKey, page)
    IN  Join([i \in DOMAIN params |->
                encodeURIComponent(params[i].k) \o <<"=">>
                    \o encodeURIComponent(JsString(params[i].v))],
             <<"&">>)

(***************************************************************************)
(* The query builder on its own: inputs drawn in QueryInit, one call       *)
(***************************************************************************)

MaxPage == 2

Digit(n) == <<CASE n = 0 -> "0" [] n = 1 -> "1" [] n = 2 -> "2" [] n = 3 -> "3"
                [] n = 4 -> "4" [] n = 5 -> "5" [] n = 6 -> "6" [] n = 7 -> "7"
                [] n = 8 -> "8" [] OTHER -> "9">>

\* A page number as the JavaScript number fetchData receives.
PageNum(n) == Num(Digit(n))

\* Values _updateFilters can leave in this.filters: non-empty strings.
FilterValues == {Str(<<"a">>), Str(<<"a", " ">>), Str(<<"&", "=">>), Str(<<"+", "%">>)}

\* Values an additionalParams function can return for a key.
ParamValues ==
    {Null, Undefined, Str(<<>>), Str(<<"b">>), Str(<<"%", "2", "6">>), Num(<<"0">>)}

KeyQ == <<"q">>

KeyS == <<"s", "=">>

\* The objects with keys among ks (in that order) and values in vals.
RECURSIVE Objects(_, _)
Objects(ks, vals) ==
    IF ks = <<>> THEN {<<>>}
    ELSE LET rest == Objects(Tail(ks), vals)
         IN  rest \cup {<<[k |-> Head(ks), v |-> val]>> \o o : val \in vals, o \in rest}

QueryInit ==
    /\ qFilters \in Objects(<<KeyQ, PageKey>>, FilterValues)
    /\ qParams \in {[fn |-> FALSE, ret |-> <<>>]}
                   \cup {[fn |-> TRUE, ret |-> o] :
                            o \in Objects(<<KeyS, KeyQ, PageKey>>, ParamValues)}
    /\ qPage \in 1..MaxPage
    /\ qOut = <<>>
    /\ qPc = "input"
    /\ opt = [widget |-> "none"]
    /\ listening = FALSE
    /\ phase = "idle"
    /\ thrower = "none"
    /\ dom = <<>>
    /\ filters = <<>>
    /\ lastMeta = <<>>
    /\ inputs = <<>>
    /\ timers = {}
    /\ debounceTimer = -1
    /\ calls = <<>>
    /\ started = <<>>
    /\ settled = <<>>
    /\ burst = <<>>
    /\ selectMultiple = <<>>
    /\ deleteContent = <<>>
    /\ imageInput = <<>>
    /\ formSubmit = <<>>
    /\ editContent = <<>>
    /\ args = <<>>
    /\ result = <<>>
    /\ pc = "idle"

BuildQuery ==
    /\ qPc = "input"
    /\ qOut' = buildQueryString(qFilters, qParams, PageNum(qPage))
    /\ qPc' = "built"
    /\ UNCHANGED <<qFilters, qParams, qPage>>
    /\ UNCHANGED <<ajaxVars, pureVars, widgetVars>>

(***************************************************************************)
(* C6                                                                      *)
(***************************************************************************)

EntrySet(obj) == {<<obj[i].k, JsString(obj[i].v)>> : i \in DOMAIN obj}

\* The entries the claim expects: F overridden by A, without the null, undefined
\* and empty-string values, plus page = p.
ExpectedQuery(F, A, p) ==
    LET merged == IF A.fn THEN Spread(F, A.ret) ELSE F
        kept   == SelectSeq(merged, LAMBDA e : KeepEntry(e) /\ e.k # PageKey)
    IN  EntrySet(kept) \cup {<<PageKey, JsString(PageNum(p))>>}

DecodedQuery(s) == {<<e.k, e.v>> : e \in {ParseQuery(s)[i] : i \in DOMAIN ParseQuery(s)}}

\* C6: the decoded output of _buildQueryString(p) holds exactly the non-empty
\* entries of the filters overridden by additionalParams, plus page = p.
C6_QueryIsFiltersParamsAndPage ==
    qPc = "built" =>
        /\ DecodedQuery(qOut) = ExpectedQuery(qFilters, qParams, qPage)
        /\ Len(ParseQuery(qOut)) = Cardinality(DecodedQuery(qOut))

(***************************************************************************)
(* The widgets: options, elements, server responses                        *)
(***************************************************************************)

Regions == {"container", "loader", "nothingFound", "error"}

OptionalElements == {"loader", "nothingFound", "error", "pagination", "filters"}

\* An element of this.elements is not null.
Has(o, el) == IF el = "container" THEN o.container ELSE el \in o.present

Visible(o, d, el) == Has(o, el) /\ ~d.hidden[el]

\* errorMessage = 'An error occurred.'
DefaultStateMessage == <<"An error occurred.">>

\* 'Failed to load data.'
FallbackMessage == <<"Failed to load data.">>

RegionOf(state) ==
    CASE state = "loading" -> "loader"
      [] state = "content" -> "container"
      [] state = "empty"   -> "nothingFound"
      [] OTHER             -> "error"

\* A faulty _setState: reveals the requested region without hiding the others.
setStateNoHide(o, d, state, errorMessage) ==
    LET show == RegionOf(state)
    IN  [d EXCEPT !.hidden = IF Has(o, show) THEN [@ EXCEPT ![show] = FALSE] ELSE @,
                  !.errorText = IF state = "error" /\ Has(o, "error")
                                THEN errorMessage ELSE @]

\* _setState(state, errorMessage): add 'hidden' to the four regions that exist,
\* remove it from the requested one if it exists, write the error text.
setState(o, d, state, errorMessage) ==
    LET show == RegionOf(state)
        h0   == [r \in DOMAIN d.hidden |->
                    IF r \in Regions /\ Has(o, r) THEN TRUE ELSE d.hidden[r]]
        h1   == IF Has(o, show) THEN [h0 EXCEPT ![show] = FALSE] ELSE h0
    IN  [d EXCEPT !.hidden = h1,
                  !.errorText = IF state = "error" /\ Has(o, "error")
                                THEN errorMessage ELSE @]

\* A page-link descriptor of the metadata; url is null or a string.
Link(label, url, active) == [label |-> label, url |-> url, active |-> active]

PageUrl(n) == Str(<<"/", "?">> \o PageKey \o <<"=">> \o Digit(n))

\* The metadata object: defined is FALSE for undefined, current_page is 0 and
\* hasLast / hasLinks are FALSE for a missing field.
NoMeta ==
    [defined |-> FALSE, current_page |-> 0, hasLast |-> FALSE, last_page |-> 0,
     hasLinks |-> FALSE, links |-> <<>>]

\* {}
EmptyMeta == [NoMeta EXCEPT !.defined = TRUE]

\* new URL(link.url || '', window.location.origin).searchParams.get('page')
PageParam(url) ==
    IF url.t # "str" \/ url.v = <<>> THEN Null
    ELSE LET i  == IndexOf(url.v, "?", 1)
             qs == IF i = 0 THEN <<>> ELSE ParseQuery(SubSeq(url.v, i + 1, Len(url.v)))
             hit == SelectSeq(qs, LAMBDA e : e.k = PageKey)
         IN  IF hit = <<>> THEN Null ELSE Str(hit[1].v)

Ellipsis == <<".", ".", ".">>

\* label.includes('...')
HasEllipsis(label) ==
    \E i \in 1..(Len(label) - 2) : SubSeq(label, i, i + 2) = Ellipsis

\* label.replace(/&laquo;|&raquo;/g, '')
StripQuotes(label) == SelectSeq(label, LAMBDA c : c \notin {"&laquo;", "&raquo;"})

Truthy(val) == ~(val.t \in {"null", "undef"} \/ (val.t = "str" /\ val.v = <<>>))

\* One control of the pagination host: a span placeholder or a button; page is
\* the argument its click handler passes to fetchData, Undefined without handler.
Control(kind, text, disabled, active, page, label) ==
    [kind |-> kind, text |-> text, disabled |-> disabled, active |-> active,
     page |-> page, label |-> label]

\* A faulty control: the button of a link without URL is disabled only when
\* the link is active.
linkControlActiveOnly(widget, link) ==
    IF HasEllipsis(link.label)
    THEN Control("span", Ellipsis, TRUE, FALSE, Undefined, link.label)
    ELSE Control("button", StripQuotes(link.label), link.active, link.active,
                 IF Truthy(link.url) THEN PageParam(link.url) ELSE Undefined,
                 link.label)

\* One link descriptor as a control. AjaxDivBox returns the '...' span before
\* it creates a button; AjaxTable creates the button with its handler and
\* appends the span in its place.
linkControl(widget, link) ==
    IF HasEllipsis(link.label)
    THEN Control("span", Ellipsis, TRUE, FALSE, Undefined, link.label)
    ELSE Control("button", StripQuotes(link.label),
                 ~Truthy(link.url) \/ link.active, link.active,
                 IF Truthy(link.url) THEN PageParam(link.url) ELSE Undefined,
                 link.label)

\* !meta?.links || meta.last_page <= 1   (undefined <= 1 is false)
SinglePage(meta) == ~meta.hasLinks \/ (meta.hasLast /\ meta.last_page <= 1)

\* _renderPagination(meta)
renderPagination(o, d, meta) ==
    IF ~Has(o, "pagination") THEN d
    ELSE IF SinglePage(meta)
    THEN [d EXCEPT !.hidden["pagination"] = TRUE,
                   !.pagination = IF o.widget = "AjaxDivBox" THEN <<>> ELSE @]
    ELSE [d EXCEPT !.hidden["pagination"] = FALSE,
                   !.pagination = [i \in DOMAIN meta.links |->
                                      linkControl(o.widget, meta.links[i])]]

\* A record of the response: name and html are JavaScript values.
Record(name, html) == [name |-> name, html |-> html]

\* item[key] of a record: undefined for a key the record does not carry.
Field(item, key) == IF key \in DOMAIN item THEN item[key] ELSE Undefined

\* value?.[key]: undefined for null and undefined; an object's own field; the
\* length of a string; undefined for any other key of a string or a number.
Prop(val, key) ==
    CASE val.t \in {"null", "undef"} -> Undefined
      [] val.t = "obj"               -> Field(val.f, key)
      [] val.t = "str" /\ key = "length" -> Num(Digit(Len(val.v)))
      [] OTHER                       -> Undefined

\* The template region's markup: '<div>data.name</div>'.
TemplateTokens == <<"<div>", "data.name", "</div>">>

\* The key path of a placeholder token, <<>> for any other token: what
\* /data\.([a-zA-Z0-9_]+\.[a-zA-Z0-9_]+)/g and /data\.([a-zA-Z0-9_]+)/g capture.
Path(token) ==
    CASE token = "data.name"        -> <<"name">>
      [] token = "data.missing"     -> <<"missing">>
      [] token = "data.user"        -> <<"user">>
      [] token = "data.user.name"   -> <<"user", "name">>
      [] token = "data.name.length" -> <<"name", "length">>
      [] OTHER                      -> <<>>

\* value ?? ''
OrEmpty(val) == IF val.t \in {"null", "undef"} THEN <<>> ELSE JsString(val)

\* A faulty replacement: the value as a string, without the ?? '' fallback.
substituteNoFallback(tpl, item) ==
    Concat([i \in DOMAIN tpl |->
              IF Path(tpl[i]) = <<>> THEN <<tpl[i]>>
              ELSE LET v1 == Field(item, Path(tpl[i])[1])
                       v2 == IF Len(Path(tpl[i])) = 1 THEN v1 ELSE Prop(v1, Path(tpl[i])[2])
                   IN  IF v2.t = "null" THEN <<"null">>
                       ELSE IF v2.t = "undef" THEN <<"undefined">>
                       ELSE JsString(v2)])

\* The two replace passes over the template's markup: first the placeholders
\* with a two-key path,
\*   value = item; for (key of keys) { value = value?.[key];
\*                                     if (value === undefined) break; }
\*   return value ?? '';
\* then, over the result, the placeholders with one key: item[key] ?? ''.
substitute(tpl, item) ==
    LET nested(keys) ==
            LET v1 == Field(item, keys[1])
            IN  OrEmpty(IF v1 = Undefined THEN Undefined ELSE Prop(v1, keys[2]))
        pass1 == Concat([i \in DOMAIN tpl |->
                    IF Len(Path(tpl[i])) = 2 THEN nested(Path(tpl[i])) ELSE <<tpl[i]>>])
    IN  Concat([i \in DOMAIN pass1 |->
                    IF Len(Path(pass1[i])) = 1
                    THEN OrEmpty(Field(item, Path(pass1[i])[1]))
                    ELSE <<pass1[i]>>])

\* The markup onBox / onRow returns for a record.
CallbackMarkup(item) == <<"<b>">> \o JsString(Field(item, "name")) \o <<"</b>">>

\* The one replace pass of part_005: /data\.([a-zA-Z0-9_]+)/g matches the first
\* key of a two-key placeholder and leaves the rest of it in place.
substituteLegacy(tpl, item) ==
    Concat([i \in DOMAIN tpl |->
              IF Path(tpl[i]) = <<>> THEN <<tpl[i]>>
              ELSE OrEmpty(Field(item, Path(tpl[i])[1]))
                   \o (IF Len(Path(tpl[i])) = 2 THEN <<".", Path(tpl[i])[2]>> ELSE <<>>)])

\* _renderTemplate(item)
renderTemplate(o, item) ==
    IF o.widget = "legacy"
    THEN IF o.onItem THEN CallbackMarkup(item)
         ELSE IF ~o.template THEN <<>>
         ELSE substituteLegacy(TemplateTokens, item)
    ELSE IF o.widget = "AjaxDivBox"
    THEN IF Field(item, "html").t \notin {"null", "undef"} THEN JsString(Field(item, "html"))
         ELSE IF o.onItem THEN CallbackMarkup(item)
         ELSE IF ~o.template THEN <<>>
         ELSE substitute(TemplateTokens, item)
    ELSE IF o.onItem THEN CallbackMarkup(item)
         ELSE IF Truthy(Field(item, "html")) THEN JsString(Field(item, "html"))
         ELSE IF ~o.template THEN <<>>
         ELSE substitute(TemplateTokens, item)

\* _renderBoxes(data) / _renderRows(data): the container's new content.
renderItems(o, data) == Concat([i \in DOMAIN data |-> renderTemplate(o, data[i])])

Whitespace == {" ", "\n", "\t"}

\* String.prototype.trim
RECURSIVE TrimLeft(_)
TrimLeft(s) == IF s # <<>> /\ Head(s) \in Whitespace THEN TrimLeft(Tail(s)) ELSE s

RECURSIVE TrimRight(_)
TrimRight(s) ==
    IF s # <<>> /\ s[Len(s)] \in Whitespace THEN TrimRight(SubSeq(s, 1, Len(s) - 1)) ELSE s

Trim(s) == TrimRight(TrimLeft(s))

(***************************************************************************)
(* The transport and the response envelope                                 *)
(***************************************************************************)

\* A parsed response body. isNull: the JSON value null; ok: "false" when the
\* body carries ok: false, "absent" otherwise; message and html: JavaScript
\* values; data.tag: "absent", "array" or "object" (a non-array value).
Body(isNull, ok, message, html, data, meta) ==
    [isNull |-> isNull, ok |-> ok, message |-> message, html |-> html,
     data |-> data, meta |-> meta]

NoData == [tag |-> "absent", items |-> <<>>]

Array(items) == [tag |-> "array", items |-> items]

NotAnArray == [tag |-> "object", items |-> <<>>]

EmptyBody == Body(FALSE, "absent", Undefined, Undefined, NoData, NoMeta)

\* What the transport delivers for a request: a network failure, or an HTTP
\* status with a body that parses as JSON or does not.
Outcome(kind, status, parsable, body) ==
    [kind |-> kind, status |-> status, parsable |-> parsable, body |-> body]

\* The value the awaited transport expression yields or throws:
\*   (await window.axios.get(endpoint)).data
\*   await (await fetch(endpoint, ...)).json()
\* axios rejects on a network failure and on a status outside 2xx, and hands an
\* unparsable body on as a string; fetch rejects on a network failure only, and
\* json() rejects on an unparsable body.
transport(fetcher, out) ==
    IF out.kind = "network"
    THEN [threw |-> TRUE, body |-> EmptyBody,
          message |-> Str(IF fetcher = "axios" THEN <<"Network Error">>
                          ELSE <<"Failed to fetch">>)]
    ELSE IF fetcher = "axios"
    THEN IF out.status \notin 200..299
         THEN [threw |-> TRUE, body |-> EmptyBody,
               message |-> Str(<<"Request failed with status code">>)]
         ELSE [threw |-> FALSE, body |-> IF out.parsable THEN out.body ELSE EmptyBody,
               message |-> Undefined]
    ELSE IF ~out.parsable
         THEN [threw |-> TRUE, body |-> EmptyBody, message |-> Str(<<"Unexpected token">>)]
         ELSE [threw |-> FALSE, body |-> out.body, message |-> Undefined]

(***************************************************************************)
(* fetchData                                                               *)
(***************************************************************************)

\* One fetchData invocation. status: "inflight" while it awaits its response,
\* "fulfilled" / "rejected" for its promise; trace: what it emitted and issued,
\* in order; threw: a registered handler threw during it; overtaken: the page
\* of a later call whose response arrived while this one awaited its own.
NewCall(page) ==
    [page |-> page, status |-> "running", trace |-> <<>>, threw |-> FALSE,
     overtaken |-> Undefined]

\* _emit(event, payload) inside call c: the handlers run; one that throws ends
\* the forEach with its exception.
emit(c, th, event) ==
    [c EXCEPT !.trace = Append(@, event), !.threw = @ \/ th = event]

HandlerMessage == Str(<<"handler failed">>)

\* The state fetchData works on; query: the query string of the request it
\* issued.
State(d, meta, cs, q) == [dom |-> d, lastMeta |-> meta, calls |-> cs, query |-> q]

\* fetchData(page) up to its first await: the loading state, 'start', (AjaxTable:
\* the pagination host cleared and hidden), the query string, the request.
fetchDataBegin(o, th, flt, st, page) ==
    LET d1 == setState(o, st.dom, "loading", DefaultStateMessage)
        c1 == emit(NewCall(page), th, "start")
        d2 == IF o.widget = "AjaxTable" /\ Has(o, "pagination")
              THEN [d1 EXCEPT !.pagination = <<>>, !.hidden["pagination"] = TRUE]
              ELSE d1
        c2 == [c1 EXCEPT !.trace = Append(@, "request"), !.status = "inflight"]
    IN  IF c1.threw
        THEN State(d1, st.lastMeta, Append(st.calls, [c1 EXCEPT !.status = "rejected"]),
                   <<>>)
        ELSE State(d2, st.lastMeta, Append(st.calls, c2),
                   buildQueryString(flt, o.additionalParams, page))

\* A faulty catch block: sets the error state and rethrows.
fetchDataCatchRethrow(o, th, st, i, message) ==
    State(setState(o, st.dom, "error", FallbackMessage), st.lastMeta,
          [st.calls EXCEPT ![i] = [@ EXCEPT !.status = "rejected"]], st.query)

\* A faulty catch block: sets the error state without emitting 'error'.
fetchDataCatchSilent(o, th, st, i, message) ==
    State(setState(o, st.dom, "error", FallbackMessage), st.lastMeta,
          [st.calls EXCEPT ![i] = [@ EXCEPT !.status = "fulfilled"]], st.query)

\* A faulty catch block: after the error state and 'error' it issues the
\* request again and awaits it.
fetchDataCatchRetry(o, th, st, i, message) ==
    LET c == emit(st.calls[i], th, "error")
    IN  State(setState(o, st.dom, "error", FallbackMessage), st.lastMeta,
              [st.calls EXCEPT ![i] =
                  [c EXCEPT !.trace = Append(@, "request"), !.status = "inflight"]],
              st.query)

\* catch (err): message = err?.message || 'Failed to load data.'; the error
\* state; 'error'. message is err?.message.
fetchDataCatch(o, th, st, i, message) ==
    LET msg == IF Truthy(message) THEN JsString(message) ELSE FallbackMessage
        c   == emit(st.calls[i], th, "error")
    IN  State(setState(o, st.dom, "error", msg), st.lastMeta,
              [st.calls EXCEPT ![i] =
                  [c EXCEPT !.status = IF th = "error" THEN "rejected" ELSE "fulfilled"]],
              st.query)

\* A faulty read of the metadata: response[metaKey] without the || {} fallback.
MetaOfRaw(body) == body.meta

\* response[metaKey] || {}
MetaOf(body) == IF body.meta.defined THEN body.meta ELSE EmptyMeta

\* The end of the try block: the view-state for the rendered content, then
\* 'rendered'; a throwing handler lands in the catch block.
fetchDataRendered(o, th, st, i, state) ==
    LET d == setState(o, st.dom, state, DefaultStateMessage)
        c == emit(st.calls[i], th, "rendered")
        s == State(d, st.lastMeta, [st.calls EXCEPT ![i] = c], st.query)
    IN  IF th = "rendered"
        THEN fetchDataCatch(o, th, s, i, HandlerMessage)
        ELSE State(d, st.lastMeta,
                   [st.calls EXCEPT ![i] = [c EXCEPT !.status = "fulfilled"]], st.query)

\* The try block after the transport answered with `body`.
fetchDataTry(o, th, st, i, body) ==
    IF body.isNull
    THEN \* response.ok / response[metaKey] of null: a TypeError
         fetchDataCatch(o, th, st, i, Str(<<"Cannot read properties of null">>))
    ELSE IF o.widget = "AjaxDivBox" /\ body.ok = "false"
    THEN \* throw response
         fetchDataCatch(o, th, st, i, body.message)
    ELSE LET meta == MetaOf(body)
         IN  IF o.widget = "AjaxDivBox" /\ body.html.t \notin {"null", "undef"}
             THEN LET d1 == [st.dom EXCEPT !.container = body.html.v]
                      d2 == renderPagination(o, d1, meta)
                  IN  fetchDataRendered(o, th, State(d2, meta, st.calls, st.query), i,
                          IF Len(Trim(body.html.v)) > 0 THEN "content" ELSE "empty")
             ELSE IF body.data.tag = "object"
             THEN \* data.forEach is not a function, after the container was cleared
                  fetchDataCatch(o, th,
                      State([st.dom EXCEPT !.container = <<>>], meta, st.calls, st.query),
                      i, Str(<<"data.forEach is not a function">>))
             ELSE LET data == body.data.items
                      d1   == [st.dom EXCEPT !.container = renderItems(o, data)]
                      d2   == renderPagination(o, d1, meta)
                  IN  fetchDataRendered(o, th, State(d2, meta, st.calls, st.query), i,
                          IF Len(data) > 0 THEN "content" ELSE "empty")

\* A faulty continuation: the response of a call that is no longer the latest
\* one is discarded.
fetchDataResumeLatestOnly(o, th, st, i, out) ==
    IF i # Len(st.calls)
    THEN State(st.dom, st.lastMeta,
               [st.calls EXCEPT ![i] = [@ EXCEPT !.status = "fulfilled"]], st.query)
    ELSE LET r == transport(o.fetcher, out)
         IN  IF r.threw THEN fetchDataCatch(o, th, st, i, r.message)
             ELSE fetchDataTry(o, th, st, i, r.body)

\* fetchData from its await on, when the request of call i settles with `out`.
fetchDataResume(o, th, st, i, out) ==
    LET r == transport(o.fetcher, out)
    IN  IF r.threw THEN fetchDataCatch(o, th, st, i, r.message)
        ELSE fetchDataTry(o, th, st, i, r.body)

(***************************************************************************)
(* Filters and the debounce timer                                          *)
(***************************************************************************)

\* The debounce window: setTimeout(..., 300) / debounceTime = 300.
DebounceTime == 300

\* The clock advances in steps of a whole fraction of the window.
TicksPerWindow == 2

TickMs == DebounceTime \div TicksPerWindow

\* The name of the select inside the filter region.
KeyT == <<"t">>

\* The named inputs of the filter region in document order: a text input and a
\* select.
InputNames == <<KeyQ, KeyT>>

InputKind(name) == IF name = KeyT THEN "select" ELSE "input"

\* A control inside the filter region: name and value are strings, type is
\* "text" or "checkbox" for an input and "select" for a select.
FormControl(tag, type, name, value, checked) ==
    [tag |-> tag, type |-> type, name |-> name, value |-> value, checked |-> checked]

\* The text input and the select of the filter region with the values `vals`.
ControlsOf(vals) ==
    [i \in DOMAIN InputNames |->
        FormControl(InputKind(InputNames[i]),
                    IF InputKind(InputNames[i]) = "select" THEN "select" ELSE "text",
                    InputNames[i], vals[InputNames[i]], FALSE)]

\* The entry list of the FormData object. For a FORM region, new FormData(form):
\* the named controls in tree order, a checkbox only when it is checked. For any
\* other region, formData.append(input.name, input.value) for every named
\* 'input, select' inside it.
formData(isForm, controls) ==
    LET successful(c) == c.name # <<>> /\ (c.type = "checkbox" => c.checked)
        named(c)      == c.name # <<>>
        taken == IF isForm THEN SelectSeq(controls, successful)
                 ELSE SelectSeq(controls, named)
    IN  [i \in DOMAIN taken |-> [k |-> taken[i].name, v |-> Str(taken[i].value)]]

\* for (const [key, value] of formData.entries()) if (value) this.filters[key] = value
RECURSIVE updateFiltersFrom(_, _)
updateFiltersFrom(entries, acc) ==
    IF entries = <<>> THEN acc
    ELSE updateFiltersFrom(Tail(entries),
            IF Truthy(Head(entries).v)
            THEN ObjSet(acc, Head(entries).k, Head(entries).v)
            ELSE acc)

\* _updateFilters() of a widget whose filter region is no FORM element.
updateFilters(o, vals) ==
    IF ~Has(o, "filters") THEN <<>>
    ELSE updateFiltersFrom(formData(FALSE, ControlsOf(vals)), <<>>)

\* _updateFilters(filterEl) of the AjaxTable of part_005:
\*   if (input.value && input.name) this.filters[input.name] = input.value
RECURSIVE updateFiltersLegacy(_, _)
updateFiltersLegacy(controls, acc) ==
    IF controls = <<>> THEN acc
    ELSE updateFiltersLegacy(Tail(controls),
            IF Head(controls).value # <<>> /\ Head(controls).name # <<>>
            THEN ObjSet(acc, Head(controls).name, Str(Head(controls).value))
            ELSE acc)

\* A faulty handler: starts a timer without clearing the pending one.
debounceNoClear(pending, timer) ==
    [timers |-> pending \cup {DebounceTime}, debounceTimer |-> DebounceTime]

\* clearTimeout(this.debounceTimer); this.debounceTimer = setTimeout(..., 300)
debounce(pending, timer) ==
    [timers |-> (pending \ {timer}) \cup {DebounceTime}, debounceTimer |-> DebounceTime]

\* A due timer runs before the clock advances or a later input event is handled.
TimerDue == \E t \in timers : t <= 0

(***************************************************************************)
(* The server                                                              *)
(***************************************************************************)

RecordAnn == Record(Str(<<"Ann">>), Undefined)

RecordHtml == Record(Undefined, Str(<<"<i>">>))

\* The number a page argument (a number, or the string of a link URL) denotes.
PageNumber(page) ==
    IF page.t \in {"num", "str"} /\ \E n \in 0..9 : Digit(n) = page.v
    THEN CHOOSE n \in 0..9 : Digit(n) = page.v
    ELSE 1

\* Laravel's link descriptors for page n of `last` pages.
PageLinks(n, last) ==
    <<Link(<<"&laquo;", "Previous">>, IF n > 1 THEN PageUrl(n - 1) ELSE Null, FALSE)>>
    \o [i \in 1..last |-> Link(Digit(i), PageUrl(i), i = n)]
    \o <<Link(<<"Next", "&raquo;">>, IF n < last THEN PageUrl(n + 1) ELSE Null, FALSE)>>

MetaFor(n, last) ==
    [defined |-> TRUE, current_page |-> n, hasLast |-> TRUE, last_page |-> last,
     hasLinks |-> TRUE, links |-> PageLinks(n, last)]

Records == Array(<<RecordAnn, RecordHtml>>)

ServerMessage == Str(<<"Server exploded">>)

\* The response to a non-success status: {message: 'Server exploded'}.
ErrorBody == Body(FALSE, "absent", ServerMessage, Undefined, NoData, NoMeta)

Blank == Str(<<" ", "\n">>)

\* The bodies a server answers a request of page n with: envelopes with and
\* without records and metadata, with a whole-batch html field, the JSON value
\* null, a data field that is no array, and envelopes that report ok: false.
ServerBodies(n) ==
    {Body(FALSE, "absent", Undefined, Undefined, d, m) :
        d \in {Array(<<>>), Records}, m \in {NoMeta, MetaFor(n, MaxPage)}}
    \cup {EmptyBody,
          Body(FALSE, "absent", Undefined, Undefined, NotAnArray, NoMeta),
          Body(FALSE, "absent", Undefined, Str(<<>>), Array(<<>>), NoMeta),
          Body(FALSE, "absent", Undefined, Blank, Records, NoMeta),
          Body(FALSE, "absent", Undefined, Str(<<"<p>">>), Array(<<>>), NoMeta),
          Body(FALSE, "absent", Undefined, Str(<<"<p>">>), NoData, NoMeta),
          Body(TRUE, "absent", Undefined, Undefined, NoData, NoMeta),
          Body(FALSE, "false", ServerMessage, Undefined, NoData, NoMeta),
          Body(FALSE, "false", Undefined, Undefined, NoData, NoMeta)}

\* Every way the request for page n can settle.
AnyOutcomes(n) ==
    {Outcome("network", 0, FALSE, EmptyBody),
     Outcome("http", 500, TRUE, ErrorBody),
     Outcome("http", 200, FALSE, EmptyBody)}
    \cup {Outcome("http", 200, TRUE, b) : b \in ServerBodies(n)}

\* A server that answers with page n of MaxPage pages of records, or not at all.
PlainOutcomes(n) ==
    {Outcome("network", 0, FALSE, EmptyBody),
     Outcome("http", 200, TRUE,
             Body(FALSE, "absent", Undefined, Undefined, Records, MetaFor(n, MaxPage)))}

\* Link descriptors with a '...' entry between the current and the last page.
EllipsisLinks(n) ==
    <<Link(Digit(n), PageUrl(n), TRUE),
      Link(Ellipsis, PageUrl(MaxPage), FALSE),
      Link(Digit(MaxPage), PageUrl(MaxPage), n = MaxPage)>>

\* The metadata a server answers a request of page n with: several pages, one
\* page, one page whose links still list several, several pages without links,
\* links without last_page, links with a '...' entry, none.
PagedMetas(n) ==
    {MetaFor(n, MaxPage), MetaFor(n, 1),
     [MetaFor(n, MaxPage) EXCEPT !.last_page = 1],
     [MetaFor(n, MaxPage) EXCEPT !.hasLinks = FALSE, !.links = <<>>],
     [MetaFor(n, MaxPage) EXCEPT !.hasLast = FALSE, !.last_page = 0],
     [MetaFor(n, MaxPage) EXCEPT !.links = EllipsisLinks(n)],
     NoMeta}

\* A server that answers with records and any of that metadata, or not at all.
PagedOutcomes(n) ==
    {Outcome("network", 0, FALSE, EmptyBody)}
    \cup {Outcome("http", 200, TRUE,
                  Body(FALSE, "absent", Undefined, Undefined, Records, m)) :
             m \in PagedMetas(n)}

Outcomes(o, n) ==
    CASE o.server = "any"   -> AnyOutcomes(n)
      [] o.server = "paged" -> PagedOutcomes(n)
      [] OTHER              -> PlainOutcomes(n)

(***************************************************************************)
(* History variables                                                       *)
(***************************************************************************)

NoInputs == [n \in {KeyQ, KeyT} |-> <<>>]

\* No fetchData call was made yet.
\* No 'pageChange' event preceded the fetchData call.
NoChange == [event |-> "none", page |-> Undefined, label |-> <<>>]

NoStart ==
    [origin |-> "none", page |-> Undefined, query |-> <<>>, status |-> "none",
     trace |-> <<>>, lag |-> -1, seen |-> NoInputs, expect |-> Undefined,
     change |-> NoChange]

\* A response arrived since the last fetchData call was made.
PastStart == [NoStart EXCEPT !.origin = "past", !.status = "past"]

NoOutcome == Outcome("none", 0, FALSE, EmptyBody)

\* No response arrived since the last fetchData call was made.
NoSettle ==
    [out |-> NoOutcome, page |-> Undefined, status |-> "none", trace |-> <<>>,
     threw |-> FALSE, overtaken |-> Undefined]

\* elapsed: the milliseconds since the last filter event, -1 before the first,
\* counted up to the window; kind: the element of that event; coalesced: the
\* timer of an earlier event was pending when that event came; fetches: the
\* fetchData calls of debounce callbacks since that event.
NoBurst == [elapsed |-> -1, kind |-> "none", coalesced |-> FALSE, fetches |-> 0]

\* The call rendered a response: it emitted 'rendered' and not 'error'.
Rendered(c) ==
    /\ c.status = "fulfilled"
    /\ \E j \in DOMAIN c.trace : c.trace[j] = "rendered"
    /\ \A j \in DOMAIN c.trace : c.trace[j] # "error"

(***************************************************************************)
(* The widget as a state machine                                           *)
(***************************************************************************)

\* The fetchData invocations that may await their response at once.
MaxInflight == 2

Elements == Regions \cup {"pagination"}

InputValues(name) == IF name = KeyT THEN {<<>>, <<"x">>} ELSE {<<>>, <<"a">>}

NoParams == [fn |-> FALSE, ret |-> <<>>]

\* The options of a constructed widget, the server it talks to and its caller:
\* one that awaits each fetchData before the next call ("sequential"), or not.
\* AjaxDivBox has no autoInit option: its constructor tests config.autoInit,
\* which it never sets.
Options(fetchers, present, params, server, caller) ==
    {o \in [widget : {"AjaxDivBox", "AjaxTable"},
            container : {TRUE},
            fetcher : fetchers,
            present : present,
            additionalParams : params,
            onItem : {FALSE},
            template : {TRUE},
            autoInit : BOOLEAN,
            server : {server},
            caller : {caller}] :
        o.widget = "AjaxDivBox" => o.autoInit}

\* The document before the constructor runs: the page shows all the elements
\* or hides them all; a missing element counts as hidden throughout.
InitialDom(o) ==
    {[hidden |-> [e \in Elements |-> IF Has(o, e) THEN h ELSE TRUE],
      errorText |-> <<>>, container |-> <<>>, pagination |-> <<>>] :
        h \in (IF o.autoInit THEN {TRUE} ELSE {FALSE})}

AjaxInit(options) ==
    /\ opt \in options
    /\ listening = FALSE
    /\ phase = "new"
    /\ thrower = "none"
    /\ dom \in InitialDom(opt)
    /\ filters = <<>>
    /\ lastMeta = NoMeta
    /\ inputs = NoInputs
    /\ timers = {}
    /\ debounceTimer = -1
    /\ calls = <<>>
    /\ started = NoStart
    /\ settled = NoSettle
    /\ burst = NoBurst
    /\ selectMultiple = <<>>
    /\ deleteContent = <<>>
    /\ imageInput = <<>>
    /\ formSubmit = <<>>
    /\ editContent = <<>>
    /\ qFilters = <<>>
    /\ qParams = [fn |-> FALSE, ret |-> <<>>]
    /\ qPage = 1
    /\ qOut = <<>>
    /\ qPc = "idle"
    /\ args = <<>>
    /\ result = <<>>
    /\ pc = "idle"

\* The fetchData calls the caller and the user let be pending at once.
Limit == IF opt.caller = "sequential" THEN 1 ELSE MaxInflight

\* Room for one more fetchData call besides the ones pending timers will make.
\* (A filter event needs room for the one call its timer will make.)
Capacity == Len(calls) + Cardinality(timers) < Limit

Inflight(c) == c.status = "inflight"

\* The calls still waiting.
Waiting(cs) == SelectSeq(cs, Inflight)

\* this.fetchData(page), with this.filters = flt, up to its await; change: the
\* event the calling handler emitted just before it.
StartFetchAfter(change, page, origin, flt) ==
    \E st \in {fetchDataBegin(opt, thrower, flt, State(dom, lastMeta, calls, <<>>), page)} :
        /\ dom' = st.dom
        /\ lastMeta' = st.lastMeta
        /\ calls' = Waiting(st.calls)
        /\ filters' = flt
        /\ started' = [origin |-> origin, page |-> page, query |-> st.query,
                       status |-> st.calls[Len(st.calls)].status,
                       trace |-> st.calls[Len(st.calls)].trace,
                       lag |-> IF origin = "filter" THEN burst.elapsed ELSE -1,
                       seen |-> IF origin = "filter" THEN inputs ELSE NoInputs,
                       expect |-> IF origin = "refresh" /\ Rendered(settled)
                                  THEN settled.page ELSE Undefined,
                       change |-> change]
        /\ settled' = NoSettle

StartFetch(page, origin, flt) == StartFetchAfter(NoChange, page, origin, flt)

\* A faulty constructor: binds the listener and calls init() before it tests
\* the container.
ConstructBindFirst ==
    /\ UNCHANGED <<queryVars, pureVars, widgetVars>>
    /\ phase = "new"
    /\ phase' = IF Has(opt, "container") THEN "ready" ELSE "threw"
    /\ listening' = Has(opt, "filters")
    /\ IF opt.autoInit
       THEN StartFetch(PageNum(1), "call", updateFilters(opt, inputs))
       ELSE UNCHANGED <<dom, lastMeta, calls, filters, started, settled>>
    /\ UNCHANGED <<opt, thrower, inputs, timers, debounceTimer, burst>>

\* The end of the constructor: throw without the container (AjaxTable: without
\* its table and tbody); _bindFilterEvents(); init() unless autoInit is off.
Construct ==
    /\ UNCHANGED <<queryVars, pureVars, widgetVars>>
    /\ phase = "new"
    /\ IF ~Has(opt, "container")
       THEN /\ phase' = "threw"
            /\ UNCHANGED <<listening, dom, lastMeta, calls, filters, started, settled>>
       ELSE /\ phase' = "ready"
            /\ listening' = Has(opt, "filters")
            /\ IF opt.autoInit
               THEN StartFetch(PageNum(1), "call", updateFilters(opt, inputs))
               ELSE UNCHANGED <<dom, lastMeta, calls, filters, started, settled>>
    /\ UNCHANGED <<opt, thrower, inputs, timers, debounceTimer, burst>>

\* on(event, fn) with a handler that throws.
On(ev) ==
    /\ UNCHANGED <<queryVars, pureVars, widgetVars>>
    /\ phase = "ready"
    /\ thrower = "none"
    /\ thrower' = ev
    /\ UNCHANGED <<opt, listening, phase, dom, filters, lastMeta, inputs, timers, debounceTimer,
                   calls, started, settled, burst>>

\* init()
CallInit ==
    /\ UNCHANGED <<queryVars, pureVars, widgetVars>>
    /\ phase = "ready"
    /\ Capacity
    /\ StartFetch(PageNum(1), "call", updateFilters(opt, inputs))
    /\ UNCHANGED <<opt, listening, phase, thrower, inputs, timers, debounceTimer, burst>>

\* fetchData(p)
CallFetchData(p) ==
    /\ UNCHANGED <<queryVars, pureVars, widgetVars>>
    /\ phase = "ready"
    /\ Capacity
    /\ StartFetch(PageNum(p), "call", filters)
    /\ UNCHANGED <<opt, listening, phase, thrower, inputs, timers, debounceTimer, burst>>

\* this.lastMeta?.current_page || 1
currentPage(meta) ==
    IF meta.defined /\ meta.current_page # 0 THEN meta.current_page ELSE 1

\* refresh()
CallRefresh ==
    /\ UNCHANGED <<queryVars, pureVars, widgetVars>>
    /\ phase = "ready"
    /\ Capacity
    /\ StartFetch(PageNum(currentPage(lastMeta)), "refresh", filters)
    /\ UNCHANGED <<opt, listening, phase, thrower, inputs, timers, debounceTimer, burst>>

\* A faulty parseInt: hands the string on.
parseIntIdentity(val) == val

\* parseInt(pageNum): the number a string of digits denotes, NaN otherwise.
parseInt(val) ==
    IF val.t = "str" /\ \E n \in 0..9 : Digit(n) = val.v
    THEN Num(val.v)
    ELSE [t |-> "nan", v |-> <<>>]

\* A click on control k of the pagination host: btn.onclick emits 'pageChange'
\* with {page: parseInt(pageNum), label: link.label}, then calls
\* this.fetchData(pageNum).
ClickPagination(k) ==
    /\ UNCHANGED <<queryVars, pureVars, widgetVars>>
    /\ phase = "ready"
    /\ Capacity
    /\ Visible(opt, dom, "pagination")
    /\ k \in DOMAIN dom.pagination
    /\ dom.pagination[k].kind = "button"
    /\ ~dom.pagination[k].disabled
    /\ dom.pagination[k].page # Undefined
    /\ StartFetchAfter([event |-> "pageChange",
                        page |-> parseInt(dom.pagination[k].page),
                        label |-> dom.pagination[k].label],
                       dom.pagination[k].page, "page", filters)
    /\ UNCHANGED <<opt, listening, phase, thrower, inputs, timers, debounceTimer, burst>>

\* The user changes the input `name` to v: the 'input' event of a text input or
\* of a select (AjaxDivBox), the 'input' / 'change' event (AjaxTable). Both
\* widgets run the same handler for either element.
FilterEvent(name, v) ==
    /\ UNCHANGED <<queryVars, pureVars, widgetVars>>
    /\ phase = "ready"
    /\ listening
    /\ inputs[name] # v
    /\ ~TimerDue
    /\ Len(calls) < Limit
    /\ \E r \in {debounce(timers, debounceTimer)} :
           /\ timers' = r.timers
           /\ debounceTimer' = r.debounceTimer
    /\ inputs' = [inputs EXCEPT ![name] = v]
    /\ burst' = [elapsed |-> 0, kind |-> InputKind(name), coalesced |-> timers # {},
                 fetches |-> 0]
    /\ UNCHANGED <<opt, listening, phase, thrower, dom, filters, lastMeta, calls, started, settled>>

\* The debounce callback: this._updateFilters(); this.fetchData(1).
TimerFire(t) ==
    /\ UNCHANGED <<queryVars, pureVars, widgetVars>>
    /\ t \in timers
    /\ t <= 0
    /\ timers' = timers \ {t}
    /\ debounceTimer' = IF debounceTimer = t THEN -1 ELSE debounceTimer
    /\ StartFetch(PageNum(1), "filter", updateFilters(opt, inputs))
    /\ burst' = [burst EXCEPT !.fetches = @ + 1]
    /\ UNCHANGED <<opt, listening, phase, thrower, inputs>>

\* TickMs milliseconds pass.
Tick ==
    /\ UNCHANGED <<queryVars, pureVars, widgetVars>>
    /\ phase = "ready"
    /\ ~TimerDue
    /\ timers # {}
    /\ timers' = {t - TickMs : t \in timers}
    /\ debounceTimer' = IF debounceTimer > 0 THEN debounceTimer - TickMs ELSE debounceTimer
    /\ burst' = [burst EXCEPT !.elapsed =
                    IF @ >= 0 /\ @ < DebounceTime THEN @ + TickMs ELSE @]
    /\ UNCHANGED <<opt, listening, phase, thrower, dom, filters, lastMeta, inputs,
                   calls, started, settled>>

\* The calls made before call i that still wait are overtaken by its response.
Overtake(cs, i) ==
    [j \in DOMAIN cs |-> IF j < i THEN [cs[j] EXCEPT !.overtaken = cs[i].page] ELSE cs[j]]

\* The request of call i settles with `out`: fetchData resumes after its await.
Respond(i, out) ==
    /\ UNCHANGED <<queryVars, pureVars, widgetVars>>
    /\ \E st \in {fetchDataResume(opt, thrower, State(dom, lastMeta, calls, <<>>), i, out)} :
           /\ dom' = st.dom
           /\ lastMeta' = st.lastMeta
           /\ calls' = Waiting(Overtake(st.calls, i))
           /\ settled' = [out |-> out, page |-> st.calls[i].page,
                          status |-> st.calls[i].status, trace |-> st.calls[i].trace,
                          threw |-> st.calls[i].threw,
                          overtaken |-> st.calls[i].overtaken]
    /\ started' = PastStart
    /\ UNCHANGED <<opt, listening, phase, thrower, filters, inputs, timers, debounceTimer, burst>>

\* A widget without a filter region (filterSelector = null, the default), whose
\* caller registers handlers that throw.
CycleNext ==
    \/ Construct
    \/ \E ev \in {"start", "rendered", "error"} : On(ev)
    \/ CallInit
    \/ \E p \in 1..MaxPage : CallFetchData(p)
    \/ CallRefresh
    \/ \E k \in 1..(MaxPage + 2) : ClickPagination(k)
    \/ \E i \in DOMAIN calls :
          \E out \in Outcomes(opt, PageNumber(calls[i].page)) : Respond(i, out)

\* A widget without a filter region whose handlers return normally.
OverlapNext ==
    \/ Construct
    \/ CallInit
    \/ \E p \in 1..MaxPage : CallFetchData(p)
    \/ CallRefresh
    \/ \E k \in 1..(MaxPage + 2) : ClickPagination(k)
    \/ \E i \in DOMAIN calls :
          \E out \in Outcomes(opt, PageNumber(calls[i].page)) : Respond(i, out)

\* A widget with a filter region.
FiltersNext ==
    \/ Construct
    \/ CallInit
    \/ \E p \in 1..MaxPage : CallFetchData(p)
    \/ CallRefresh
    \/ \E k \in 1..(MaxPage + 2) : ClickPagination(k)
    \/ \E name \in {KeyQ, KeyT} : \E v \in InputValues(name) : FilterEvent(name, v)
    \/ \E t \in timers : TimerFire(t)
    \/ Tick
    \/ \E i \in DOMAIN calls :
          \E out \in Outcomes(opt, PageNumber(calls[i].page)) : Respond(i, out)

vars == <<queryVars, ajaxVars, pureVars, widgetVars>>

\* The fetch cycle of AjaxDivBox and AjaxTable against any server, one call at
\* a time: a widget with every optional element but the filter region, or with
\* none, and handlers that may throw.
Spec ==
    /\ AjaxInit(Options({"axios", "fetch"}, {OptionalElements \ {"filters"}, {}},
                        {NoParams}, "any", "sequential"))
    /\ [][CycleNext]_vars

\* Overlapping fetchData calls against a plain server.
SpecOverlap ==
    /\ AjaxInit(Options({"fetch"}, {OptionalElements \ {"filters"}}, {NoParams},
                        "plain", "overlapping"))
    /\ [][OverlapNext]_vars

\* The filter region and its debounce timer, one call at a time.
SpecDebounce ==
    /\ AjaxInit(Options({"fetch"}, {OptionalElements}, {NoParams}, "plain",
                        "sequential"))
    /\ [][FiltersNext]_vars

\* Calls, responses, filter events and clicks in any interleaving.
SpecFilters ==
    /\ AjaxInit(Options({"fetch"}, {OptionalElements}, {NoParams}, "plain",
                        "overlapping"))
    /\ [][FiltersNext]_vars

\* Overlapping fetchData calls and pagination clicks against a server that
\* answers with every shape of pagination metadata.
SpecPagination ==
    /\ AjaxInit(Options({"fetch"}, {OptionalElements \ {"filters"}}, {NoParams},
                        "paged", "overlapping"))
    /\ [][OverlapNext]_vars

\* The same options with a container selector that resolves to no element.
Unresolved(options) == {[o EXCEPT !.container = FALSE] : o \in options}

\* Construction with and without the container, with all, some or none of the
\* optional elements, and the fetch cycles after it.
SpecConstruct ==
    /\ AjaxInit(LET os == Options({"fetch"},
                                  {{}, {"pagination", "filters"}, OptionalElements},
                                  {NoParams}, "plain", "sequential")
                IN  os \cup Unresolved(os))
    /\ [][FiltersNext]_vars

(***************************************************************************)
(* The AjaxTable of part_005                                               *)
(***************************************************************************)

\* 'Table Render Error!'
LegacyFallbackMessage == <<"Table Render Error!">>

\* The options of the part_005 AjaxTable and the page it is built on: the
\* elements '.loading-table', '.nothing-found-table' and '.table-render-error'
\* (with its '.table-render-error-text') exist or not.
LegacyOptions(present, caller) ==
    [widget : {"legacy"}, container : {TRUE}, fetcher : {"axios", "fetch"},
     present : present, onItem : {FALSE}, template : {TRUE}, autoInit : {TRUE},
     server : {"legacy"}, caller : {caller}]

\* What the server of the part_005 AjaxTable answers a request of page n with.
LegacyOutcomes(n) ==
    {Outcome("network", 0, FALSE, EmptyBody),
     Outcome("http", 500, TRUE, ErrorBody),
     Outcome("http", 200, FALSE, EmptyBody),
     Outcome("http", 200, TRUE, EmptyBody)}
    \cup {Outcome("http", 200, TRUE, Body(FALSE, "absent", Undefined, Undefined, d, m)) :
             d \in {Array(<<>>), Records}, m \in {NoMeta, MetaFor(n, MaxPage)}}

\* The value the awaited transport expression yields or throws:
\*   (await axios.get(endpoint)).data
\*   res = await fetch(endpoint); if (!res.ok) throw await res.json();
\*   await res.json()
\* message is err?.message of the thrown value.
legacyTransport(fetcher, out) ==
    IF out.kind = "network"
    THEN [threw |-> TRUE, body |-> EmptyBody,
          message |-> Str(IF fetcher = "axios" THEN <<"Network Error">>
                          ELSE <<"Failed to fetch">>)]
    ELSE IF fetcher = "axios"
    THEN IF out.status \notin 200..299
         THEN [threw |-> TRUE, body |-> EmptyBody,
               message |-> Str(<<"Request failed with status code">>)]
         ELSE [threw |-> FALSE, body |-> IF out.parsable THEN out.body ELSE EmptyBody,
               message |-> Undefined]
    ELSE IF ~out.parsable
         THEN [threw |-> TRUE, body |-> EmptyBody, message |-> Str(<<"Unexpected token">>)]
         ELSE IF out.status \notin 200..299
         THEN [threw |-> TRUE, body |-> EmptyBody,
               message |-> IF out.body.isNull THEN Undefined ELSE out.body.message]
         ELSE [threw |-> FALSE, body |-> out.body, message |-> Undefined]

\* fetchData(page) of part_005 up to its await: the pagination host hidden,
\* 'start', the container hidden, the loader shown, _hideError(),
\* _hideNothingFound(), the request.
legacyFetchDataBegin(o, flt, st, page) ==
    LET h == [e \in DOMAIN st.dom.hidden |->
                CASE e \in {"pagination", "container"} -> TRUE
                  [] e = "loader" -> IF Has(o, e) THEN FALSE ELSE st.dom.hidden[e]
                  [] OTHER -> IF Has(o, e) THEN TRUE ELSE st.dom.hidden[e]]
        d == [st.dom EXCEPT !.hidden = h,
                            !.errorText = IF Has(o, "error") THEN <<>> ELSE @]
        c == [emit(NewCall(page), "none", "start") EXCEPT
                 !.trace = Append(@, "request"), !.status = "inflight"]
    IN  State(d, st.lastMeta, Append(st.calls, c), buildQueryStringLegacy(flt, page))

\* _showError(msg): the error block shown with its text (alert(msg) without the
\* block), then the container shown.
legacyShowError(o, d, msg) ==
    LET d1 == IF Has(o, "error")
              THEN [d EXCEPT !.hidden["error"] = FALSE, !.errorText = msg]
              ELSE d
    IN  [d1 EXCEPT !.hidden["container"] = FALSE]

\* catch (err): msg = err?.message || (typeof err === 'string' ? err : 'Table
\* Render Error!'); _showError(msg); the loader hidden; the container shown;
\* 'rendered' with the error.
legacyCatch(o, st, i, message) ==
    LET msg == IF Truthy(message) THEN JsString(message) ELSE LegacyFallbackMessage
        d1  == legacyShowError(o, st.dom, msg)
        d2  == [d1 EXCEPT !.hidden["loader"] = IF Has(o, "loader") THEN TRUE ELSE @,
                          !.hidden["container"] = FALSE]
        c   == emit(st.calls[i], "none", "rendered")
    IN  State(d2, st.lastMeta, [st.calls EXCEPT ![i] = [c EXCEPT !.status = "fulfilled"]],
              st.query)

\* One link descriptor as a control of part_005: a span for the label '...',
\* else a button disabled when the link has no URL; page is
\* url.searchParams.get('page') || 1.
legacyLinkControl(link) ==
    IF link.label = Ellipsis
    THEN Control("span", Ellipsis, TRUE, FALSE, Undefined, link.label)
    ELSE Control("button",
                 \* '&laquo;' becomes the character &lsaquo;, '&raquo;' &rsaquo;
                 [j \in DOMAIN link.label |->
                     CASE link.label[j] = "&laquo;" -> "&lsaquo;"
                       [] link.label[j] = "&raquo;" -> "&rsaquo;"
                       [] OTHER -> link.label[j]],
                 ~Truthy(link.url), link.active,
                 IF ~Truthy(link.url) THEN Undefined
                 ELSE IF Truthy(PageParam(link.url)) THEN PageParam(link.url)
                 ELSE PageNum(1),
                 link.label)

\* The try block of part_005 after the transport answered with `body`, and what
\* follows it.
legacyFetchDataTry(o, st, i, body) ==
    IF body.isNull
    THEN legacyCatch(o, st, i, Str(<<"Cannot read properties of null">>))
    ELSE IF body.data.tag = "object"
    THEN \* rows.forEach is not a function, after tbody was cleared
         legacyCatch(o, State([st.dom EXCEPT !.container = <<>>], st.lastMeta, st.calls,
                             st.query),
                     i, Str(<<"rows.forEach is not a function">>))
    ELSE LET rows == body.data.items
             meta == MetaOf(body)
             d1   == [st.dom EXCEPT !.container = renderItems(o, rows),
                                    !.pagination = <<>>]
             paged == meta.hasLast /\ meta.last_page > 1
             d2   == IF paged THEN [d1 EXCEPT !.hidden["pagination"] = FALSE] ELSE d1
         IN  IF paged /\ ~meta.hasLinks
             THEN \* meta.links.slice of undefined
                  legacyCatch(o, State(d2, st.lastMeta, st.calls, st.query), i,
                              Str(<<"Cannot read properties of undefined">>))
             ELSE LET inner == IF paged /\ Len(meta.links) > 2
                               THEN SubSeq(meta.links, 2, Len(meta.links) - 1)
                               ELSE <<>>
                      d3 == [d2 EXCEPT !.pagination =
                                [k \in DOMAIN inner |-> legacyLinkControl(inner[k])]]
                      d4 == [d3 EXCEPT !.hidden["loader"] =
                                           IF Has(o, "loader") THEN TRUE ELSE @,
                                       !.hidden["container"] = FALSE]
                      \* _showNothingFound() when there are no rows
                      d5 == IF Len(rows) = 0 /\ Has(o, "nothingFound")
                            THEN [d4 EXCEPT !.hidden["nothingFound"] = FALSE,
                                            !.hidden["container"] = TRUE]
                            ELSE d4
                      c  == emit(st.calls[i], "none", "rendered")
                  IN  State(d5, st.lastMeta,
                            [st.calls EXCEPT ![i] = [c EXCEPT !.status = "fulfilled"]],
                            st.query)

\* fetchData of part_005 from its await on.
legacyFetchDataResume(o, st, i, out) ==
    LET r == legacyTransport(o.fetcher, out)
    IN  IF r.threw THEN legacyCatch(o, st, i, r.message)
        ELSE legacyFetchDataTry(o, st, i, r.body)

\* this.fetchData(page) of part_005 up to its await.
LegacyStartFetch(change, page, origin) ==
    \E st \in {legacyFetchDataBegin(opt, filters, State(dom, lastMeta, calls, <<>>), page)} :
        /\ dom' = st.dom
        /\ calls' = st.calls
        /\ started' = [NoStart EXCEPT !.origin = origin, !.page = page,
                                      !.query = st.query, !.status = "inflight",
                                      !.trace = st.calls[Len(st.calls)].trace,
                                      !.change = change]
        /\ settled' = NoSettle

\* The end of the part_005 constructor: this.init().
LegacyConstruct ==
    /\ phase = "new"
    /\ phase' = "ready"
    /\ LegacyStartFetch(NoChange, PageNum(1), "call")
    /\ UNCHANGED <<opt, listening, thrower, filters, lastMeta, inputs, timers,
                   debounceTimer, burst, queryVars, pureVars, widgetVars>>

\* refresh() of part_005: this.init(), that is fetchData(1).
LegacyRefresh ==
    /\ phase = "ready"
    /\ Capacity
    /\ LegacyStartFetch(NoChange, PageNum(1), "refresh")
    /\ UNCHANGED <<opt, listening, phase, thrower, filters, lastMeta, inputs, timers,
                   debounceTimer, burst, queryVars, pureVars, widgetVars>>

\* fetchData(p) of part_005.
LegacyFetchData(p) ==
    /\ phase = "ready"
    /\ Capacity
    /\ LegacyStartFetch(NoChange, PageNum(p), "call")
    /\ UNCHANGED <<opt, listening, phase, thrower, filters, lastMeta, inputs, timers,
                   debounceTimer, burst, queryVars, pureVars, widgetVars>>

\* A click on control k of the pagination host of part_005: the host hidden,
\* 'pageChange', this.fetchData(page).
LegacyClick(k) ==
    /\ phase = "ready"
    /\ Capacity
    /\ ~dom.hidden["pagination"]
    /\ k \in DOMAIN dom.pagination
    /\ dom.pagination[k].kind = "button"
    /\ ~dom.pagination[k].disabled
    /\ LegacyStartFetch([event |-> "pageChange",
                         page |-> parseInt(dom.pagination[k].page),
                         label |-> dom.pagination[k].label],
                        dom.pagination[k].page, "page")
    /\ UNCHANGED <<opt, listening, phase, thrower, filters, lastMeta, inputs, timers,
                   debounceTimer, burst, queryVars, pureVars, widgetVars>>

\* The request of call i of part_005 settles with `out`.
LegacyRespond(i, out) ==
    /\ \E st \in {legacyFetchDataResume(opt, State(dom, lastMeta, calls, <<>>), i, out)} :
           /\ dom' = st.dom
           /\ calls' = Waiting(st.calls)
           /\ settled' = [out |-> out, page |-> st.calls[i].page,
                          status |-> st.calls[i].status, trace |-> st.calls[i].trace,
                          threw |-> FALSE, overtaken |-> Undefined]
    /\ started' = PastStart
    /\ UNCHANGED <<opt, listening, phase, thrower, filters, lastMeta, inputs, timers,
                   debounceTimer, burst, queryVars, pureVars, widgetVars>>

LegacyNext ==
    \/ LegacyConstruct
    \/ LegacyRefresh
    \/ \E p \in 1..MaxPage : LegacyFetchData(p)
    \/ \E k \in 1..MaxPage : LegacyClick(k)
    \/ \E i \in DOMAIN calls :
          \E out \in LegacyOutcomes(PageNumber(calls[i].page)) : LegacyRespond(i, out)

\* The fetch cycles of the part_005 AjaxTable without a filter region
\* (filterSelector = null, the default), one call at a time or overlapping, on
\* a page with all or none of the loader, the nothing-found block and the error
\* block.
SpecLegacy ==
    /\ AjaxInit(LegacyOptions({{"loader", "nothingFound", "error"}, {}}, "sequential")
                \cup LegacyOptions({{"loader", "nothingFound", "error"}}, "overlapping"))
    /\ [][LegacyNext]_vars

(***************************************************************************)
(* _renderTemplate alone                                                   *)
(***************************************************************************)

\* The options _renderTemplate reads: onBox / onRow is a function or not, the
\* template element exists or not.
RenderOptions == [widget : {"AjaxDivBox", "AjaxTable"}, onItem : BOOLEAN, template : BOOLEAN]

\* Records of a JSON response: name is missing, null or a string; html is
\* missing, null, '' or markup; user is missing, null, a number, a string, or an
\* object with a name, with a null name, or without one.
Items ==
    [name : {Undefined, Null, Str(<<"A", "n">>)},
     html : {Undefined, Null, Str(<<>>), Str(<<"<i>">>)},
     user : {Undefined, Null, Num(<<"5">>), Str(<<"B">>),
             Obj([name |-> Str(<<"Bob">>)]), Obj([name |-> Null]), Obj(<<>>)}]

Placeholders == {"data.name", "data.missing", "data.user", "data.user.name", "data.name.length"}

\* Template markup with one placeholder.
Templates == {<<"<div>", ph, "</div>">> : ph \in Placeholders}

RenderInit ==
    /\ args \in [o : RenderOptions, item : Items, tpl : Templates]
    /\ result = <<>>
    /\ pc = "input"
    /\ qFilters = <<>>
    /\ qParams = [fn |-> FALSE, ret |-> <<>>]
    /\ qPage = 1
    /\ qOut = <<>>
    /\ qPc = "idle"
    /\ opt = [widget |-> "none"]
    /\ listening = FALSE
    /\ phase = "idle"
    /\ thrower = "none"
    /\ dom = <<>>
    /\ filters = <<>>
    /\ lastMeta = <<>>
    /\ inputs = <<>>
    /\ timers = {}
    /\ debounceTimer = -1
    /\ calls = <<>>
    /\ started = <<>>
    /\ settled = <<>>
    /\ burst = <<>>
    /\ selectMultiple = <<>>
    /\ deleteContent = <<>>
    /\ imageInput = <<>>
    /\ formSubmit = <<>>
    /\ editContent = <<>>

\* this._renderTemplate(item)
RenderTemplate ==
    /\ pc = "input"
    /\ result' = renderTemplate(args.o, args.item)
    /\ pc' = "renderTemplate"
    /\ UNCHANGED <<args, queryVars, ajaxVars, widgetVars>>

\* The template strategy of _renderTemplate on the markup args.tpl.
Substitute ==
    /\ pc = "input"
    /\ result' = substitute(args.tpl, args.item)
    /\ pc' = "substitute"
    /\ UNCHANGED <<args, queryVars, ajaxVars, widgetVars>>

RenderNext == RenderTemplate \/ Substitute

\* The markup of one record.
SpecRender == RenderInit /\ [][RenderNext]_vars

(***************************************************************************)
(* _updateFilters alone                                                    *)
(***************************************************************************)

\* The name of the checkbox inside the filter region.
KeyA == <<"o", "n", "l", "y">>

\* The filter region's controls in document order: a text input with or
\* without a name, a select, and a checkbox with the value '1'.
FilterControls ==
    {<<FormControl("input", "text", n, q, FALSE),
       FormControl("select", "select", KeyT, t, FALSE),
       FormControl("input", "checkbox", KeyA, <<"1">>, ch)>> :
        n \in {KeyQ, <<>>}, q \in {<<>>, <<"a">>}, t \in {<<>>, <<"x">>}, ch \in BOOLEAN}

UpdateFiltersInit ==
    /\ args \in [widget : {"AjaxDivBox", "AjaxTable", "legacy"}, isForm : BOOLEAN,
                  controls : FilterControls]
    /\ result = <<>>
    /\ pc = "input"
    /\ qFilters = <<>>
    /\ qParams = [fn |-> FALSE, ret |-> <<>>]
    /\ qPage = 1
    /\ qOut = <<>>
    /\ qPc = "idle"
    /\ opt = [widget |-> "none"]
    /\ listening = FALSE
    /\ phase = "idle"
    /\ thrower = "none"
    /\ dom = <<>>
    /\ filters = <<>>
    /\ lastMeta = <<>>
    /\ inputs = <<>>
    /\ timers = {}
    /\ debounceTimer = -1
    /\ calls = <<>>
    /\ started = <<>>
    /\ settled = <<>>
    /\ burst = <<>>
    /\ selectMultiple = <<>>
    /\ deleteContent = <<>>
    /\ imageInput = <<>>
    /\ formSubmit = <<>>
    /\ editContent = <<>>

\* this._updateFilters(), then the query string of the next request.
UpdateFilters ==
    /\ pc = "input"
    /\ \E flt \in {IF args.widget = "legacy"
                    THEN updateFiltersLegacy(args.controls, <<>>)
                    ELSE updateFiltersFrom(formData(args.isForm, args.controls), <<>>)} :
          result' = [filters |-> flt,
                     query |-> IF args.widget = "legacy"
                               THEN buildQueryStringLegacy(flt, PageNum(1))
                               ELSE buildQueryString(flt, NoParams, PageNum(1))]
    /\ pc' = "updateFilters"
    /\ UNCHANGED <<args, queryVars, ajaxVars, widgetVars>>

\* Reading the filter region.
SpecUpdateFilters == UpdateFiltersInit /\ [][UpdateFilters]_vars

\* The query builder alone.
SpecQuery == QueryInit /\ [][BuildQuery]_vars

(***************************************************************************)
(* Properties                                                              *)
(***************************************************************************)

\* The state regions that do not carry the 'hidden' class.
VisibleRegions == {r \in Regions : Visible(opt, dom, r)}

\* C1: once the first fetchData call has started, at most one of the loader,
\* the container, the nothing-found block and the error block is without the
\* 'hidden' class, whatever calls, responses, filter events and clicks follow.
C1_AtMostOneRegionVisible ==
    started.status # "none" => Cardinality(VisibleRegions) <= 1

\* C1: a page that showed every region before the first fetchData call shows
\* the loader alone once that call was made.
C1_Witness ==
    /\ ~opt.autoInit
    /\ started.status = "inflight"
    /\ VisibleRegions = {"loader"}

\* C2: a response with status 500 and the body {message: M} ends in the error
\* view-state with M in the message field, 'error' emitted and 'rendered' not,
\* with the fetch backend and with the axios backend.
C2_ServerErrorShowsServerMessage ==
    (/\ settled.out = Outcome("http", 500, TRUE, ErrorBody)
     /\ ~settled.threw
     /\ Has(opt, "error")) =>
        /\ VisibleRegions = {"error"}
        /\ dom.errorText = ServerMessage.v
        /\ settled.trace = <<"start", "request", "error">>

\* C3: whenever a response arrives it is rendered, whether or not a later call
\* was made or answered meanwhile: the view-state, lastMeta, the container and
\* the pagination controls are those of the response that arrived last.
C3_LastArrivalWins ==
    settled.status # "none" =>
        IF settled.out.kind = "network"
        THEN /\ VisibleRegions = {"error"}
             /\ dom.errorText = <<"Failed to fetch">>
        ELSE /\ VisibleRegions = {"container"}
             /\ lastMeta = settled.out.body.meta
             /\ lastMeta.current_page = PageNumber(settled.page)
             /\ dom.container = renderItems(opt, settled.out.body.data.items)
             /\ Visible(opt, dom, "pagination")
             /\ \E k \in DOMAIN dom.pagination :
                    /\ dom.pagination[k].active
                    /\ dom.pagination[k].text = Digit(PageNumber(settled.page))

\* C3: the response to fetchData(1) arrives after the response to a later
\* fetchData(2) did, and the widget shows page 1.
C3_Witness ==
    /\ settled.overtaken # Undefined
    /\ PageNumber(settled.overtaken) = 2
    /\ PageNumber(settled.page) = 1
    /\ settled.out.kind = "http"
    /\ lastMeta.current_page = 1
    /\ VisibleRegions = {"container"}

\* C4: a fetchData call emits 'start' once and then issues its request; once
\* the request settled, and no registered handler threw, it has emitted
\* exactly one of 'rendered' and 'error' after that.
C4_StartThenOneOutcome ==
    /\ started.status = "inflight" => started.trace = <<"start", "request">>
    /\ (settled.status # "none" /\ ~settled.threw) =>
           settled.trace \in {<<"start", "request", "rendered">>,
                              <<"start", "request", "error">>}

\* C4: a response whose data field is no array ends in 'error' alone.
C4_Witness ==
    /\ settled.out.kind = "http"
    /\ settled.out.body.data.tag = "object"
    /\ ~settled.threw
    /\ settled.trace = <<"start", "request", "error">>

C7_RefreshRepeatsPage ==
    (started.origin = "refresh" /\ started.expect # Undefined) =>
        PageNumber(started.page) = PageNumber(started.expect)

\* The entries of the filter region's named inputs that hold a value.
InputEntries(vals) == {<<n, vals[n]>> : n \in {m \in DOMAIN vals : vals[m] # <<>>}}

\* C8: a burst of filter events leads to one fetchData call: none before a
\* whole debounce window has passed since the last event, one once it has; that
\* call is for page 1 and its query carries the input values of that moment.
C8_BurstIssuesOneFetch ==
    /\ started.origin = "filter" =>
           /\ started.lag = DebounceTime
           /\ started.page = PageNum(1)
           /\ DecodedQuery(started.query) =
                  InputEntries(started.seen) \cup {<<PageKey, <<"1">>>>}
    /\ burst.fetches <= 1
    /\ burst.elapsed < DebounceTime => burst.fetches = 0
    /\ (burst.elapsed = DebounceTime /\ ~TimerDue) => burst.fetches = 1

\* C8: the last event of a burst came while an earlier one was pending, and the
\* one fetch of the burst carries the text typed.
C8_Witness ==
    /\ burst.coalesced
    /\ burst.fetches = 1
    /\ started.origin = "filter"
    /\ started.seen[KeyQ] = <<"a">>
    /\ started.seen[KeyT] = <<"x">>

\* C9: once the change of a select is handled, the page-1 fetch has started.
C9_SelectFetchesAtOnce ==
    burst.kind = "select" => burst.fetches = 1

\* C10: after a fetch that rendered, the nothing-found block shows for a
\* response with no records and no whole-batch html and for one whose
\* whole-batch html is empty or whitespace, the container shows for a response
\* with records (and no whole-batch html).
C10_ViewStateFollowsRecords ==
    (Rendered(settled) /\ Has(opt, "nothingFound")) =>
        LET body == settled.out.body
            html == body.html.t \notin {"null", "undef"}
        IN  /\ (~html /\ Len(body.data.items) = 0) => VisibleRegions = {"nothingFound"}
            /\ (html /\ Trim(body.html.v) = <<>>) => VisibleRegions = {"nothingFound"}
            /\ (~html /\ Len(body.data.items) > 0) => VisibleRegions = {"container"}

\* C11: after a fetch that rendered a response whose metadata has no links or
\* reports last_page <= 1, the pagination host is hidden and holds no control,
\* whatever an earlier response had rendered into it.
C11_SinglePageEmptiesPagination ==
    (/\ Rendered(settled)
     /\ Has(opt, "pagination")
     /\ SinglePage(MetaOf(settled.out.body)))
        => (dom.hidden["pagination"] /\ dom.pagination = <<>>)
\* C12: a fetchData call made by a click on a pagination control was preceded
\* by 'pageChange' carrying the number n of the page=n in the URL of one of the
\* rendered links and that link's original label; the call then emitted 'start'
\* and issued a request whose query holds page=n.
C12_ClickEmitsPageChangeThenFetches ==
    started.origin = "page" =>
        \E k \in DOMAIN lastMeta.links : \E n \in 1..MaxPage :
            /\ lastMeta.links[k].url = PageUrl(n)
            /\ started.change = [event |-> "pageChange", page |-> PageNum(n),
                                 label |-> lastMeta.links[k].label]
            /\ started.trace = <<"start", "request">>
            /\ <<PageKey, Digit(n)>> \in DecodedQuery(started.query)

\* C12: the 'Next' control of page 1 was clicked and the request for page 2 is
\* in flight.
C12_Witness ==
    /\ started.origin = "page"
    /\ started.status = "inflight"
    /\ started.change.label = <<"Next", "&raquo;">>
    /\ started.change.page = PageNum(2)
\* C13: the markup of a record is its own html if it carries one, else what the
\* render function returns if one is configured, else the substituted template;
\* a record that carries html does not reach the render function.
C13_OwnHtmlBeforeRenderFunction ==
    pc = "renderTemplate" =>
        LET html == args.item.html
        IN  /\ Truthy(html) => result = html.v
            /\ html.t \in {"null", "undef"} =>
                  result = IF args.o.onItem THEN CallbackMarkup(args.item)
                           ELSE IF args.o.template
                           THEN substitute(TemplateTokens, args.item)
                           ELSE <<>>
\* The template markup around what replaced its placeholder.
Wrapped(text) == <<"<div>">> \o text \o <<"</div>">>

\* C14: the template strategy replaces by the empty string a placeholder data.x
\* whose field x is undefined or null, and a placeholder data.a.b whose parent a
\* is missing, null, a number, a string without the property b, or an object
\* whose b is undefined or null.
C14_MissingSubstitutesEmpty ==
    pc = "substitute" =>
        LET keys   == Path(args.tpl[2])
            parent == Field(args.item, keys[1])
            absent(val) == val.t \in {"null", "undef"}
        IN  /\ (Len(keys) = 1 /\ absent(parent)) => result = Wrapped(<<>>)
            /\ (Len(keys) = 2 /\ absent(parent)) => result = Wrapped(<<>>)
            /\ (Len(keys) = 2 /\ parent.t = "num") => result = Wrapped(<<>>)
            /\ (Len(keys) = 2 /\ parent.t = "str" /\ keys[2] # "length")
                    => result = Wrapped(<<>>)
            /\ (Len(keys) = 2 /\ parent.t = "obj" /\ absent(Field(parent.f, keys[2])))
                    => result = Wrapped(<<>>)

\* C14: 'data.user.name' was substituted for a record whose user is a number.
C14_Witness ==
    /\ pc = "substitute"
    /\ args.tpl[2] = "data.user.name"
    /\ args.item.user = Num(<<"5">>)
    /\ result = <<"<div>", "</div>">>

\* C14 as stated: a placeholder data.a.b whose parent a is not an object is
\* replaced by the empty string.
C14_NonObjectParentSubstitutesEmpty ==
    pc = "substitute" =>
        LET keys == Path(args.tpl[2])
        IN  (Len(keys) = 2 /\ Field(args.item, keys[1]).t # "obj")
                => result = Wrapped(<<>>)
\* C15: a constructor whose container does not resolve throws with no filter
\* listener bound, no timer set and no fetchData call made; a constructor whose
\* container resolves returns, and no fetchData call of the widget rejects,
\* whichever optional elements are absent.
C15_ThrowsBeforeBindingAndFetching ==
    /\ phase = "threw" =>
          (~listening /\ timers = {} /\ calls = <<>> /\ started = NoStart)
    /\ phase # "new" => (phase = "threw" <=> ~opt.container)
    /\ phase = "ready" =>
          (started.status # "rejected" /\ settled.status # "rejected")

\* C15: the constructor threw for a page that has a filter region but no
\* container.
C15_Witness ==
    /\ phase = "threw"
    /\ "filters" \in opt.present
    /\ opt.autoInit
\* The requests a fetchData invocation issued.
Requests(trace) == Len(SelectSeq(trace, LAMBDA e : e = "request"))

\* C16: a fetchData call issues one request; once its response arrived, be it
\* a failure, the call issued no second request and no request is pending
\* until init, refresh, fetchData, a pagination click or the debounce callback
\* of a filter change calls fetchData again.
C16_OneRequestNoRetry ==
    /\ started.status = "inflight" => Requests(started.trace) = 1
    /\ settled.status # "none" =>
          (Requests(settled.trace) = 1 /\ calls = <<>>)

\* C16: the request failed, the widget shows the error state and nothing is
\* pending: no request, no timer.
C16_Witness ==
    /\ settled.out.kind = "network"
    /\ settled.trace = <<"start", "request", "error">>
    /\ calls = <<>>
    /\ timers = {}
    /\ Visible(opt, dom, "error")
\* C17: a visible pagination host holds one control per link descriptor of the
\* metadata, in link order: a span for a label that contains '...', else a
\* button that is disabled exactly when the link has no URL or is active; and a
\* fetchData call made by a click came from a link that has a URL, is not active
\* and has no '...' in its label.
C17_OneControlPerLink ==
    /\ Visible(opt, dom, "pagination") =>
          /\ Len(dom.pagination) = Len(lastMeta.links)
          /\ \A k \in DOMAIN lastMeta.links :
                LET link == lastMeta.links[k]
                    c    == dom.pagination[k]
                IN  IF HasEllipsis(link.label)
                    THEN c.kind = "span"
                    ELSE /\ c.kind = "button"
                         /\ c.label = link.label
                         /\ c.disabled <=> (link.url.t # "str" \/ link.url.v = <<>>
                                            \/ link.active)
    /\ started.origin = "page" =>
          \E k \in DOMAIN lastMeta.links :
              /\ lastMeta.links[k].label = started.change.label
              /\ lastMeta.links[k].url.t = "str"
              /\ ~lastMeta.links[k].active
              /\ ~HasEllipsis(lastMeta.links[k].label)

\* C17: the host shows the controls of links with a '...' entry.
C17_Witness ==
    /\ Visible(opt, dom, "pagination")
    /\ \E k \in DOMAIN lastMeta.links :
          /\ HasEllipsis(lastMeta.links[k].label)
          /\ dom.pagination[k].kind = "span"
    /\ \E k \in DOMAIN lastMeta.links : dom.pagination[k].kind = "button"
\* The response the transport handed to fetchData lacks the data key and the
\* meta key (it is not the JSON value null), and no handler threw.
LacksDataAndMeta ==
    /\ settled.status # "none"
    /\ ~settled.threw
    /\ ~transport(opt.fetcher, settled.out).threw
    /\ LET body == transport(opt.fetcher, settled.out).body
       IN  ~body.isNull /\ body.data.tag = "absent" /\ ~body.meta.defined

\* The widget rendered zero records and empty metadata.
RenderedNothing ==
    /\ settled.trace = <<"start", "request", "rendered">>
    /\ settled.status = "fulfilled"
    /\ lastMeta = EmptyMeta
    /\ dom.container = <<>>
    /\ VisibleRegions = {"nothingFound"} \cap opt.present

\* C18: a transported response without data key and meta key that reports no
\* ok: false and carries no whole-batch html (the two fields AjaxDivBox reads
\* before the records) is rendered as zero records and empty metadata: the
\* empty view-state, lastMeta = {}, 'rendered' and no 'error'.
C18_NoDataNoMetaRendersEmpty ==
    (/\ LacksDataAndMeta
     /\ opt.widget = "AjaxDivBox" =>
           LET body == transport(opt.fetcher, settled.out).body
           IN  body.ok # "false" /\ body.html.t \in {"null", "undef"})
        => RenderedNothing

\* C18: the response {} was rendered.
C18_Witness ==
    /\ settled.out = Outcome("http", 200, TRUE, EmptyBody)
    /\ RenderedNothing
    /\ "nothingFound" \in opt.present

\* C18 as stated: every transported response without data key and meta key
\* is rendered as zero records and empty metadata.
C18_EveryBareResponseRendersEmpty == LacksDataAndMeta => RenderedNothing
\* C19: after _updateFilters the mapping holds exactly the named inputs and
\* selects of the filter region whose value is not empty, and the query string
\* built from it has no parameter with an empty value.
C19_FiltersAreNonEmptyNamedControls ==
    pc = "updateFilters" =>
        /\ EntrySet(result.filters) =
               {<<args.controls[i].name, args.controls[i].value>> :
                   i \in {j \in DOMAIN args.controls :
                             /\ args.controls[j].name # <<>>
                             /\ args.controls[j].value # <<>>}}
        /\ \A e \in DecodedQuery(result.query) : e[2] # <<>>
\* C20: in the AjaxTable of part_005, when a fetch cycle has ended and no fetch
\* is in flight, at most one of the container, the loader, the nothing-found
\* block and the error block is visible.
C20_LegacyAtMostOneRegionVisible ==
    (calls = <<>> /\ settled.status # "none") => Cardinality(VisibleRegions) <= 1

(***************************************************************************)
(* SelectMultipleDropdown  (src/src/SelectMultipleDropdown.js)             *)
(* The instance is one record: config.maxSelections (0 stands for the      *)
(* default null, both are falsy), the Set selections, the Set              *)
(* disabledOptions, the values of the checkboxes that are checked and of   *)
(* those that are disabled, and the public or user operation made last.    *)
(***************************************************************************)
MaxSelections == 2

\* The values that have an .option element with its checkbox in the markup.
OptionValues == {"a", "b", "c"}

\* The values a caller may pass: the options and one value without an option.
Values == OptionValues \cup {"x"}

\* _addSelection: the value joins the Set and its checkbox, if any, is checked.
addSelection(s, value) ==
    [s EXCEPT !.selections = @ \cup {value},
              !.checked = IF value \in OptionValues THEN @ \cup {value} ELSE @]

\* _removeSelection: the value leaves the Set and its checkbox is unchecked.
removeSelection(s, value) ==
    [s EXCEPT !.selections = @ \ {value}, !.checked = @ \ {value}]

\* _toggleSelection(checkbox), the checkbox's value and its checked state as
\* the browser left it before the change event.
toggleSelection(s, value, isChecked) ==
    IF value \in s.disabledOptions
    THEN [s EXCEPT !.checked = @ \ {value}]
    ELSE IF isChecked
         THEN IF s.maxSelections # 0 /\ Cardinality(s.selections) >= s.maxSelections
              THEN [s EXCEPT !.checked = @ \ {value}]
              ELSE addSelection(s, value)
         ELSE removeSelection(s, value)

\* _updateOptionVisualState: nothing without a checkbox and its option.
updateOptionVisualState(s, value) ==
    IF value \notin OptionValues THEN s
    ELSE IF value \in s.disabledOptions
         THEN LET d == [s EXCEPT !.cbDisabled = @ \cup {value}]
              IN  IF value \in d.selections THEN removeSelection(d, value) ELSE d
         ELSE [s EXCEPT !.cbDisabled = @ \ {value}]

\* _reset: the Set is cleared and every checkbox unchecked.
reset(s) == [s EXCEPT !.selections = {}, !.checked = {}]

\* selectValues(values): forEach over the array.
RECURSIVE selectValues(_, _)
selectValues(s, values) ==
    IF values = <<>> THEN s
    ELSE LET value == Head(values)
             t == IF value \notin s.selections /\ value \notin s.disabledOptions
                  THEN addSelection(s, value) ELSE s
         IN  selectValues(t, Tail(values))

\* disableOption(values) and enableOption(values), the argument as an array.
RECURSIVE disableOption(_, _)
disableOption(s, valueArray) ==
    IF valueArray = <<>> THEN s
    ELSE disableOption(updateOptionVisualState(
             [s EXCEPT !.disabledOptions = @ \cup {Head(valueArray)}], Head(valueArray)),
             Tail(valueArray))

RECURSIVE enableOption(_, _)
enableOption(s, valueArray) ==
    IF valueArray = <<>> THEN s
    ELSE enableOption(updateOptionVisualState(
             [s EXCEPT !.disabledOptions = @ \ {Head(valueArray)}], Head(valueArray)),
             Tail(valueArray))

\* clearDisabledOptions: the Set is cleared first, then each former member is
\* refreshed, which only clears checkbox.disabled.
clearDisabledOptions(s) ==
    [s EXCEPT !.disabledOptions = {}, !.cbDisabled = @ \ s.disabledOptions]

\* The arrays passed to selectValues, disableOption and enableOption.
ValueArrays == {<<v>> : v \in Values} \cup {<<v, w>> : v \in Values, w \in Values}

\* The constructor: _initializeSelections copies the checked checkboxes.
SelectInit ==
    /\ \E max \in 0..MaxSelections, checked \in SUBSET OptionValues :
          /\ max # 0 => Cardinality(checked) <= max
          /\ selectMultiple = [maxSelections |-> max, selections |-> checked,
                               disabledOptions |-> {}, checked |-> checked,
                               cbDisabled |-> {}, last |-> "constructor"]
    /\ deleteContent = <<>>
    /\ imageInput = <<>>
    /\ formSubmit = <<>>
    /\ editContent = <<>>
    /\ args = <<>>
    /\ result = <<>>
    /\ pc = "idle"
    /\ qFilters = <<>>
    /\ qParams = [fn |-> FALSE, ret |-> <<>>]
    /\ qPage = 1
    /\ qOut = <<>>
    /\ qPc = "idle"
    /\ opt = [widget |-> "none"]
    /\ listening = FALSE
    /\ phase = "idle"
    /\ thrower = "none"
    /\ dom = <<>>
    /\ filters = <<>>
    /\ lastMeta = <<>>
    /\ inputs = <<>>
    /\ timers = {}
    /\ debounceTimer = -1
    /\ calls = <<>>
    /\ started = <<>>
    /\ settled = <<>>
    /\ burst = <<>>

selectOthers == <<deleteContent, imageInput, formSubmit, editContent,
                  queryVars, ajaxVars, pureVars>>

\* The user clicks a checkbox that is not disabled: the browser flips it and
\* the change listener of line 64 runs _toggleSelection.
ToggleCheckbox(value) ==
    /\ value \in OptionValues \ selectMultiple.cbDisabled
    /\ selectMultiple' =
          [toggleSelection(
               [selectMultiple EXCEPT !.checked =
                    IF value \in @ THEN @ \ {value} ELSE @ \cup {value}],
               value, value \notin selectMultiple.checked)
           EXCEPT !.last = "toggle"]
    /\ UNCHANGED selectOthers

\* The user clicks the remove button of a badge (line 71).
RemoveBadge(value) ==
    /\ value \in selectMultiple.selections
    /\ selectMultiple' = [removeSelection(selectMultiple, value) EXCEPT !.last = "remove"]
    /\ UNCHANGED selectOthers

\* The reset button (line 83) or clearSelections().
ResetSelections ==
    /\ selectMultiple' = [reset(selectMultiple) EXCEPT !.last = "reset"]
    /\ UNCHANGED selectOthers

SelectValues(values) ==
    /\ selectMultiple' = [selectValues(selectMultiple, values) EXCEPT !.last = "selectValues"]
    /\ UNCHANGED selectOthers

DisableOption(values) ==
    /\ selectMultiple' = [disableOption(selectMultiple, values) EXCEPT !.last = "disableOption"]
    /\ UNCHANGED selectOthers

EnableOption(values) ==
    /\ selectMultiple' = [enableOption(selectMultiple, values) EXCEPT !.last = "enableOption"]
    /\ UNCHANGED selectOthers

ClearDisabledOptions ==
    /\ selectMultiple' =
          [clearDisabledOptions(selectMultiple) EXCEPT !.last = "clearDisabledOptions"]
    /\ UNCHANGED selectOthers

SelectNext ==
    \/ \E value \in OptionValues : ToggleCheckbox(value)
    \/ \E value \in Values : RemoveBadge(value)
    \/ ResetSelections
    \/ \E values \in ValueArrays : SelectValues(values)
    \/ \E values \in ValueArrays : DisableOption(values)
    \/ \E values \in ValueArrays : EnableOption(values)
    \/ ClearDisabledOptions

SpecSelect == SelectInit /\ [][SelectNext]_vars

\* C21: with maxSelections configured and the initial selection within it,
\* the number of selected values never exceeds maxSelections, whatever
\* toggles, badge removals, selectValues, disableOption, enableOption and
\* resets are made.
C21_SelectionsWithinMax ==
    selectMultiple.maxSelections # 0 =>
        Cardinality(selectMultiple.selections) <= selectMultiple.maxSelections


(***************************************************************************)
(* DeleteContent  (src/unnamed/part_003)                                   *)
(* The instance is one record: options.onDelete and the transport found    *)
(* (window.axios or fetch), this.currentBtn, which of the three <dialog>   *)
(* elements are open, the disabled flags of the Confirm and Cancel         *)
(* buttons, the confirm handlers waiting at an await, the re-enable        *)
(* timers that have not run, and history: the DELETE requests sent since   *)
(* the confirmation was opened last and what the handler that finished     *)
(* last did.                                                               *)
(***************************************************************************)
MaxPending == 2

\* The delete buttons the selector matched.
Buttons == {"b1", "b2"}

\* What a DELETE request can come to: an HTTP status, or no response at all.
DeleteOutcomes == {"200", "202", "500", "network"}

\* The server carried the deletion out (a 2xx status).
Succeeded(outcome) == outcome \in {"200", "202"}

NoHandler == [btn |-> "null", outcome |-> "none", calls |-> <<>>, shown |-> {}]

\* A showModal() dialog makes the page behind it inert; the dialog shown last
\* is on top, and the result dialogs are always shown after the confirmation.
ResultOpen(d) == d.successModal \/ d.errorModal

\* _showSuccess and _showError: texts set, dialog shown (no auto-close
\* without successTimeout / errorTimeout).
showSuccess(d) == [d EXCEPT !.successModal = TRUE, !.last.shown = @ \cup {"success"}]

showError(d) == [d EXCEPT !.errorModal = TRUE, !.last.shown = @ \cup {"error"}]

\* _afterDelete(success, data): the callback gets this.currentBtn as it is now.
afterDelete(d, success) ==
    IF d.onDelete = "none" THEN d
    ELSE [d EXCEPT !.last.calls =
              Append(@, [success |-> success, button |-> d.currentBtn])]

\* The finally block: the confirmation closes, currentBtn is forgotten and the
\* buttons are re-enabled 300 ms later.
finallyBlock(d) ==
    [d EXCEPT !.deleteModal = FALSE, !.currentBtn = "null", !.timers = @ + 1]

\* The catch block, then finally; a callback that throws leaves the catch
\* block by its exception, finally runs all the same.
catchBlock(d) == finallyBlock(afterDelete(showError(d), FALSE))

\* What follows _showSuccess in the try block: _afterDelete(true, data), whose
\* exception, if the callback throws, is caught by the catch block.
afterSuccess(d) ==
    IF d.onDelete = "throws"
    THEN catchBlock(afterDelete(d, TRUE))
    ELSE finallyBlock(afterDelete(d, TRUE))

\* History: the handler of request r, now finished, and what its request came to.
Finished(d, r, outcome) == [d EXCEPT !.last.btn = r.btn, !.last.outcome = outcome]

\* The confirm handler resumes after `await axios.delete(...)`: axios
\* resolves on a 2xx status and rejects otherwise.
resumeAxios(d, outcome) ==
    IF outcome = "200" THEN afterSuccess(showSuccess(d)) ELSE catchBlock(d)

DeleteInit ==
    /\ \E backend \in {"axios", "fetch"}, callback \in {"none", "returns", "throws"} :
          deleteContent = [transport |-> backend, onDelete |-> callback,
                           currentBtn |-> "null", deleteModal |-> FALSE,
                           successModal |-> FALSE, errorModal |-> FALSE,
                           confirmDisabled |-> FALSE, cancelDisabled |-> FALSE,
                           requests |-> <<>>, timers |-> 0, sent |-> 0,
                           last |-> NoHandler]
    /\ selectMultiple = <<>>
    /\ imageInput = <<>>
    /\ formSubmit = <<>>
    /\ editContent = <<>>
    /\ args = <<>>
    /\ result = <<>>
    /\ pc = "idle"
    /\ qFilters = <<>>
    /\ qParams = [fn |-> FALSE, ret |-> <<>>]
    /\ qPage = 1
    /\ qOut = <<>>
    /\ qPc = "idle"
    /\ opt = [widget |-> "none"]
    /\ listening = FALSE
    /\ phase = "idle"
    /\ thrower = "none"
    /\ dom = <<>>
    /\ filters = <<>>
    /\ lastMeta = <<>>
    /\ inputs = <<>>
    /\ timers = {}
    /\ debounceTimer = -1
    /\ calls = <<>>
    /\ started = <<>>
    /\ settled = <<>>
    /\ burst = <<>>

deleteOthers == <<selectMultiple, imageInput, formSubmit, editContent,
                  queryVars, ajaxVars, pureVars>>

\* A delete button is clicked (lines 103-111); the page is inert while a
\* modal dialog is open.
ClickDelete(btn) ==
    /\ ~deleteContent.deleteModal /\ ~ResultOpen(deleteContent)
    /\ deleteContent' =
          [deleteContent EXCEPT
              !.currentBtn = btn, !.confirmDisabled = FALSE, !.cancelDisabled = FALSE,
              !.deleteModal = TRUE, !.sent = 0, !.last = NoHandler,
              !.requests = [k \in DOMAIN @ |-> [@[k] EXCEPT !.current = FALSE]]]
    /\ UNCHANGED deleteOthers

\* Cancel is clicked (lines 115-118).
ClickCancel ==
    /\ deleteContent.deleteModal /\ ~ResultOpen(deleteContent)
    /\ ~deleteContent.cancelDisabled
    /\ deleteContent' = [deleteContent EXCEPT !.deleteModal = FALSE, !.currentBtn = "null",
                                              !.last = NoHandler]
    /\ UNCHANGED deleteOthers

\* Confirm is clicked (lines 121-139): up to the await of the request.
ClickConfirm ==
    /\ deleteContent.deleteModal /\ ~ResultOpen(deleteContent)
    /\ ~deleteContent.confirmDisabled
    /\ Len(deleteContent.requests) + deleteContent.timers < MaxPending
    /\ deleteContent' =
          IF deleteContent.currentBtn = "null" THEN deleteContent
          ELSE [deleteContent EXCEPT
                   !.confirmDisabled = TRUE, !.cancelDisabled = TRUE,
                   !.requests = Append(@, [btn |-> deleteContent.currentBtn,
                                           stage |-> "sent", outcome |-> "none",
                                           current |-> TRUE]),
                   !.sent = @ + 1, !.last = NoHandler]
    /\ UNCHANGED deleteOthers

\* The user closes the dialog on top: Escape, or the close button of a result
\* dialog (<form method="dialog">).
CloseDialog ==
    /\ deleteContent.deleteModal \/ ResultOpen(deleteContent)
    /\ deleteContent' =
          IF ResultOpen(deleteContent)
          THEN [deleteContent EXCEPT !.successModal = FALSE, !.errorModal = FALSE]
          ELSE [deleteContent EXCEPT !.deleteModal = FALSE]
    /\ UNCHANGED deleteOthers

\* A re-enable timer of the finally block runs (lines 155-158).
ReenableTimer ==
    /\ deleteContent.timers > 0
    /\ deleteContent' = [deleteContent EXCEPT !.timers = @ - 1,
                            !.confirmDisabled = FALSE, !.cancelDisabled = FALSE]
    /\ UNCHANGED deleteOthers

\* The request of a waiting handler settles and the handler runs on to its
\* next await or to its end (lines 131-159).
DeleteRespond(k, outcome) ==
    /\ k \in DOMAIN deleteContent.requests
    /\ deleteContent.requests[k].stage = "sent"
    /\ LET r == deleteContent.requests[k]
           rest == [j \in 1..(Len(deleteContent.requests) - 1) |->
                       IF j < k THEN deleteContent.requests[j]
                       ELSE deleteContent.requests[j + 1]]
           d == [deleteContent EXCEPT !.requests = rest, !.last = NoHandler]
       IN  deleteContent' =
              IF deleteContent.transport = "axios"
              THEN Finished(resumeAxios(d, outcome), r, outcome)
              ELSE IF Succeeded(outcome)
                   THEN [showSuccess([deleteContent EXCEPT !.last = NoHandler]) EXCEPT
                            !.requests[k].stage = "json", !.requests[k].outcome = outcome]
                   ELSE Finished(catchBlock(d), r, outcome)
    /\ UNCHANGED deleteOthers

\* fetch only: `await res.json().catch(...)` is done and the handler runs to
\* its end (lines 142-159).
DeleteJson(k) ==
    /\ k \in DOMAIN deleteContent.requests
    /\ deleteContent.requests[k].stage = "json"
    /\ LET r == deleteContent.requests[k]
           rest == [j \in 1..(Len(deleteContent.requests) - 1) |->
                       IF j < k THEN deleteContent.requests[j]
                       ELSE deleteContent.requests[j + 1]]
           d == [deleteContent EXCEPT !.requests = rest,
                                      !.last = [NoHandler EXCEPT !.shown = {"success"}]]
       IN  deleteContent' = Finished(afterSuccess(d), r, r.outcome)
    /\ UNCHANGED deleteOthers

DeleteNext ==
    \/ \E btn \in Buttons : ClickDelete(btn)
    \/ ClickCancel
    \/ ClickConfirm
    \/ CloseDialog
    \/ ReenableTimer
    \/ \E k \in 1..MaxPending, outcome \in DeleteOutcomes : DeleteRespond(k, outcome)
    \/ \E k \in 1..MaxPending : DeleteJson(k)

SpecDelete == DeleteInit /\ [][DeleteNext]_vars

\* C22: at most one DELETE request is sent for each opening of the
\* confirmation, and while a request sent from the open confirmation has not
\* settled the Confirm and Cancel buttons are disabled.
C22_OneRequestPerOpening ==
    /\ deleteContent.sent <= 1
    /\ (deleteContent.deleteModal /\
        \E k \in DOMAIN deleteContent.requests : deleteContent.requests[k].current)
          => (deleteContent.confirmDisabled /\ deleteContent.cancelDisabled)


\* C23: a confirmed delete whose handler has finished called onDelete exactly
\* once, with success true exactly when the request succeeded and with the
\* button that opened the confirmation, and showed exactly one of the success
\* and the error dialog.
C23_OnDeleteOnceWithButton ==
    (deleteContent.last.outcome # "none" /\ deleteContent.onDelete # "none") =>
        /\ Len(deleteContent.last.calls) = 1
        /\ deleteContent.last.calls[1].success = Succeeded(deleteContent.last.outcome)
        /\ deleteContent.last.calls[1].button = deleteContent.last.btn
        /\ Cardinality(deleteContent.last.shown) = 1


(***************************************************************************)
(* The documented usage of AjaxDivBox (AjaxDivBox.js 7-18):                *)
(*     const grid = new AjaxDivBox({...});                                 *)
(*     grid.init(); // Fetch initial data                                  *)
(***************************************************************************)

\* grid.init(), the statement after the constructor call: it runs once, before
\* any response can arrive.
DocumentedInit ==
    /\ UNCHANGED <<queryVars, pureVars, widgetVars>>
    /\ phase = "ready"
    /\ settled = NoSettle
    /\ started.origin \in {"none", "call"}
    /\ StartFetch(PageNum(1), "init", updateFilters(opt, inputs))
    /\ UNCHANGED <<opt, listening, phase, thrower, inputs, timers, debounceTimer, burst>>

UsageNext ==
    \/ Construct
    \/ DocumentedInit
    \/ \E i \in DOMAIN calls :
          \E out \in Outcomes(opt, PageNumber(calls[i].page)) : Respond(i, out)

SpecUsage ==
    /\ AjaxInit({o \in Options({"axios", "fetch"}, {OptionalElements, {}}, {NoParams},
                               "any", "overlapping") : o.widget = "AjaxDivBox"})
    /\ [][UsageNext]_vars

\* C24: with the documented usage the constructor issues no request of its
\* own, and init() leaves exactly one request, for page 1, in flight after
\* exactly one 'start'.
C24_OneRequestForDocumentedUsage ==
    /\ started.origin # "call"
    /\ Len(calls) <= 1
    /\ started.origin = "init" =>
          /\ Len(calls) = 1
          /\ started.page = PageNum(1)
          /\ started.trace = <<"start", "request">>


(***************************************************************************)
(* ImageInput  (src/src/SelectMultipleDropdown.js 377-435)                 *)
(* One file input and its preview: whether init found a preview image,     *)
(* the image's data-src attribute, its src, the originalSrc init captured, *)
(* fileInput.files[0], the FileReader reads that have not completed, and   *)
(* history: reset ran and no file was selected since.                      *)
(***************************************************************************)
MaxReads == 2

\* The images a user may pick; a read of one yields its data URL.
Files == {"f1", "f2"}

\* readAsDataURL(file), once loaded: ev.target.result.
DataUrl(file) == <<"data:", file>>

\* reset(fileInput, img, originalSrc)
resetImage(w) == [w EXCEPT !.src = w.originalSrc, !.files = "none"]

\* reader.onload = ev => img.src = ev.target.result
onload(w, file) == [w EXCEPT !.src = DataUrl(file)]

\* init(fileInput): originalSrc = img.getAttribute('data-src') || img.src.
ImageInit ==
    /\ \E preview \in BOOLEAN, dataSrc \in {<<>>, <<"lazy.png">>} :
          imageInput = [preview |-> preview, src |-> <<"shown.png">>,
                        originalSrc |-> IF ~preview THEN <<>>
                                        ELSE IF dataSrc # <<>> THEN dataSrc
                                        ELSE <<"shown.png">>,
                        files |-> "none", reads |-> <<>>, afterReset |-> FALSE]
    /\ selectMultiple = <<>>
    /\ deleteContent = <<>>
    /\ formSubmit = <<>>
    /\ editContent = <<>>
    /\ args = <<>>
    /\ result = <<>>
    /\ pc = "idle"
    /\ qFilters = <<>>
    /\ qParams = [fn |-> FALSE, ret |-> <<>>]
    /\ qPage = 1
    /\ qOut = <<>>
    /\ qPc = "idle"
    /\ opt = [widget |-> "none"]
    /\ listening = FALSE
    /\ phase = "idle"
    /\ thrower = "none"
    /\ dom = <<>>
    /\ filters = <<>>
    /\ lastMeta = <<>>
    /\ inputs = <<>>
    /\ timers = {}
    /\ debounceTimer = -1
    /\ calls = <<>>
    /\ started = <<>>
    /\ settled = <<>>
    /\ burst = <<>>

imageOthers == <<selectMultiple, deleteContent, formSubmit, editContent,
                 queryVars, ajaxVars, pureVars>>

\* The user picks a file: the change listener starts a read (lines 412-418).
SelectFile(file) ==
    /\ Len(imageInput.reads) < MaxReads
    /\ imageInput' =
          [imageInput EXCEPT !.files = file, !.afterReset = FALSE,
                             !.reads = IF imageInput.preview THEN Append(@, file) ELSE @]
    /\ UNCHANGED imageOthers

\* The user empties the selection in the file dialog: change with no file.
SelectNothing ==
    /\ imageInput.files # "none"
    /\ imageInput' = [imageInput EXCEPT !.files = "none"]
    /\ UNCHANGED imageOthers

\* A pending read completes, in any order; a failed read has no handler.
ReadDone(k, loaded) ==
    /\ k \in DOMAIN imageInput.reads
    /\ LET rest == [j \in 1..(Len(imageInput.reads) - 1) |->
                       IF j < k THEN imageInput.reads[j] ELSE imageInput.reads[j + 1]]
           w == [imageInput EXCEPT !.reads = rest]
       IN  imageInput' = IF loaded THEN onload(w, imageInput.reads[k]) ELSE w
    /\ UNCHANGED imageOthers

\* Escape on the file input, or a double click on the preview (lines 421-428).
ResetImage ==
    /\ imageInput.preview
    /\ imageInput' = [resetImage(imageInput) EXCEPT !.afterReset = TRUE]
    /\ UNCHANGED imageOthers

ImageNext ==
    \/ \E file \in Files : SelectFile(file)
    \/ SelectNothing
    \/ \E k \in 1..MaxReads, loaded \in BOOLEAN : ReadDone(k, loaded)
    \/ ResetImage

SpecImage == ImageInit /\ [][ImageNext]_vars

\* C25: from a reset until the next file selection the preview shows the
\* original source and the file input is empty, also when a read started
\* before the reset completes after it.
C25_ResetHoldsUntilNextSelection ==
    imageInput.afterReset =>
        (imageInput.src = imageInput.originalSrc /\ imageInput.files = "none")


(***************************************************************************)
(* FormSubmit  (src/src/FormSubmit.js, and the variant of                  *)
(* src/unnamed/part_002)                                                   *)
(* The instance is one record: the configuration (which variant, whether   *)
(* formSelector and the submit button resolve, buttonOnly, whether a       *)
(* beforeSubmit hook is configured, disableOnSuccess, the event whose      *)
(* registered handler throws), the constructor's outcome, isButtonOnly,    *)
(* the button's disabled flag and label, part_002's _origBtnText, the      *)
(* _handleSubmit invocations waiting at an await, and history: a request   *)
(* succeeded, and what the invocation that ended last did.                 *)
(***************************************************************************)
MaxSubmissions == 2

Label == <<"Save">>

LoadingText == <<"Loading...">>

FormConfigs ==
    [variant : {"FormSubmit.js", "part_002"}, form : BOOLEAN, button : BOOLEAN,
     buttonOnly : BOOLEAN, beforeSubmit : BOOLEAN, disableOnSuccess : BOOLEAN,
     thrower : {"none", "success", "error"}]

\* What a request can come to: a 2xx JSON answer, a validation failure that
\* carries `errors`, any other failure.
FormOutcomes == {"ok", "errors", "failed"}

\* What an awaited beforeSubmit hook can come to.
HookResults == {"FormData", "undefined", "false", "throws"}

NoSubmission == [ended |-> "none", hook |-> "none", outcome |-> "none", trace |-> <<>>,
                 flag |-> "none"]

\* A _handleSubmit invocation: where it waits, what it did so far, its local
\* `success`.
Submission(stage, hook, trace) ==
    [stage |-> stage, hook |-> hook, trace |-> trace, success |-> FALSE]

\* The constructor's two tests (FormSubmit.js 24-27, part_002 60-70).
constructorError(c) ==
    LET isButtonOnly == ~c.form \/ c.buttonOnly
    IN  IF ~isButtonOnly /\ ~c.form THEN <<"Form element not found.">>
        ELSE IF c.variant = "FormSubmit.js"
        THEN IF ~c.button THEN <<"Submit button not found.">> ELSE <<>>
        ELSE IF isButtonOnly /\ ~c.button
             THEN <<"Submit button not found for button-only mode.">> ELSE <<>>

\* _setLoading(loading): FormSubmit.js restores this.originalButtonText,
\* part_002 restores the text it read when loading began.
setLoading(f, loading) ==
    IF ~f.config.button THEN f
    ELSE IF f.config.variant = "FormSubmit.js"
    THEN [f EXCEPT !.disabled = loading,
                   !.text = IF loading THEN LoadingText ELSE f.originalButtonText]
    ELSE IF loading
         THEN [f EXCEPT !.origBtnText = f.text, !.disabled = TRUE, !.text = LoadingText]
         ELSE [f EXCEPT !.disabled = FALSE, !.text = f.origBtnText]

\* An invocation is over: it leaves the waiting ones and becomes the history.
endSubmission(f, s, how, outcome, flag) ==
    [f EXCEPT !.last = [ended |-> how, hook |-> s.hook, outcome |-> outcome,
                        trace |-> s.trace, flag |-> flag]]

\* The afterSubmit block (FormSubmit.js 126-133): no hook configured, 'afterSubmit'
\* is emitted with the local `success`.
afterSubmit(f, s, outcome) ==
    endSubmission(f, [s EXCEPT !.trace = Append(@, "afterSubmit")], "returned", outcome,
                  IF s.success THEN "true" ELSE "false")

\* The catch block of the request (FormSubmit.js 120-124): _handleError, then
\* _setLoading(false). part_002's _handleError reads this.form for a response
\* with errors; a handler of 'error' that throws ends _handleSubmit.
handleError(f, s, outcome, withErrors) ==
    IF withErrors /\ f.config.variant = "part_002" /\ ~f.config.form
    THEN endSubmission(f, s, "threw", outcome, "none")
    ELSE LET s1 == [s EXCEPT !.trace = Append(@, "error")]
         IN  IF f.config.thrower = "error"
             THEN endSubmission(f, s1, "threw", outcome, "none")
             ELSE afterSubmit(setLoading(f, FALSE),
                              [s1 EXCEPT !.trace = Append(@, "idle")], outcome)

\* The request settled (FormSubmit.js 107-124).
resumeSubmit(f, s, outcome) ==
    IF outcome = "ok"
    THEN LET s1 == [s EXCEPT !.success = TRUE, !.trace = Append(@, "success")]
             f1 == [f EXCEPT !.succeeded = TRUE]
         IN  IF f.config.thrower = "success"
             THEN handleError(f1, s1, outcome, FALSE)
             ELSE IF f.config.disableOnSuccess
                  THEN afterSubmit(f1, s1, outcome)
                  ELSE afterSubmit(setLoading(f1, FALSE),
                                   [s1 EXCEPT !.trace = Append(@, "idle")], outcome)
    ELSE handleError(f, s, outcome, outcome = "errors")

\* A hook that lets the 'beforeSubmit' event out although it returned false.
proceedAfterHookAlways(f, hook) ==
    IF hook = "throws"
    THEN endSubmission(f, Submission("hook", hook, <<>>), "abandoned", "none", "none")
    ELSE [setLoading(f, TRUE) EXCEPT
             !.submissions = Append(@, Submission("request", hook,
                                                  <<"beforeSubmit", "loading", "request">>))]

\* _handleSubmit from the result of the hook to the await of the request
\* (FormSubmit.js 95-115); hook "none": no beforeSubmit configured.
proceedAfterHook(f, hook) ==
    IF hook \in {"false", "throws"}
    THEN endSubmission(f, Submission("hook", hook, <<>>), "abandoned", "none", "none")
    ELSE [setLoading(f, TRUE) EXCEPT
             !.submissions = Append(@, Submission("request", hook,
                                                  <<"beforeSubmit", "loading", "request">>))]

\* _handleSubmit() up to its first await.
handleSubmit(f) ==
    IF f.config.beforeSubmit
    THEN [f EXCEPT !.submissions = Append(@, Submission("hook", "pending", <<>>))]
    ELSE proceedAfterHook(f, "none")

FormInit ==
    /\ \E c \in FormConfigs :
          formSubmit = [config |-> c, phase |-> "new", error |-> <<>>,
                        isButtonOnly |-> FALSE, disabled |-> FALSE, text |-> Label,
                        originalButtonText |-> <<>>, origBtnText |-> <<>>,
                        submissions |-> <<>>, succeeded |-> FALSE,
                        last |-> NoSubmission]
    /\ selectMultiple = <<>>
    /\ deleteContent = <<>>
    /\ imageInput = <<>>
    /\ editContent = <<>>
    /\ args = <<>>
    /\ result = <<>>
    /\ pc = "idle"
    /\ qFilters = <<>>
    /\ qParams = [fn |-> FALSE, ret |-> <<>>]
    /\ qPage = 1
    /\ qOut = <<>>
    /\ qPc = "idle"
    /\ opt = [widget |-> "none"]
    /\ listening = FALSE
    /\ phase = "idle"
    /\ thrower = "none"
    /\ dom = <<>>
    /\ filters = <<>>
    /\ lastMeta = <<>>
    /\ inputs = <<>>
    /\ timers = {}
    /\ debounceTimer = -1
    /\ calls = <<>>
    /\ started = <<>>
    /\ settled = <<>>
    /\ burst = <<>>

formOthers == <<selectMultiple, deleteContent, imageInput, editContent,
                queryVars, ajaxVars, pureVars>>

\* new FormSubmit(config)
FormConstruct ==
    /\ formSubmit.phase = "new"
    /\ LET c == formSubmit.config
           err == constructorError(c)
       IN  formSubmit' =
              IF err # <<>>
              THEN [formSubmit EXCEPT !.phase = "threw", !.error = err]
              ELSE [formSubmit EXCEPT !.phase = "ready",
                                      !.isButtonOnly = ~c.form \/ c.buttonOnly,
                                      !.originalButtonText = IF c.button THEN Label ELSE <<>>]
    /\ UNCHANGED formOthers

\* The submit button is clicked (FormSubmit.js 58-70): in either mode
\* _handleSubmit runs.
ClickSubmit ==
    /\ formSubmit.phase = "ready"
    /\ formSubmit.config.button /\ ~formSubmit.disabled
    /\ Len(formSubmit.submissions) < MaxSubmissions
    /\ formSubmit' = handleSubmit([formSubmit EXCEPT !.last = NoSubmission])
    /\ UNCHANGED formOthers

\* submit()
CallSubmit ==
    /\ formSubmit.phase = "ready"
    /\ Len(formSubmit.submissions) < MaxSubmissions
    /\ formSubmit' = handleSubmit([formSubmit EXCEPT !.last = NoSubmission])
    /\ UNCHANGED formOthers

\* The awaited beforeSubmit hook of a waiting invocation settles.
HookDone(k, hook) ==
    /\ k \in DOMAIN formSubmit.submissions
    /\ formSubmit.submissions[k].stage = "hook"
    /\ LET rest == [j \in 1..(Len(formSubmit.submissions) - 1) |->
                       IF j < k THEN formSubmit.submissions[j]
                       ELSE formSubmit.submissions[j + 1]]
       IN  formSubmit' = proceedAfterHook(
               [formSubmit EXCEPT !.submissions = rest, !.last = NoSubmission], hook)
    /\ UNCHANGED formOthers

\* The request of a waiting invocation settles and _handleSubmit runs to its end.
FormRespond(k, outcome) ==
    /\ k \in DOMAIN formSubmit.submissions
    /\ formSubmit.submissions[k].stage = "request"
    /\ LET rest == [j \in 1..(Len(formSubmit.submissions) - 1) |->
                       IF j < k THEN formSubmit.submissions[j]
                       ELSE formSubmit.submissions[j + 1]]
       IN  formSubmit' = resumeSubmit(
               [formSubmit EXCEPT !.submissions = rest, !.last = NoSubmission],
               formSubmit.submissions[k], outcome)
    /\ UNCHANGED formOthers

FormNext ==
    \/ FormConstruct
    \/ ClickSubmit
    \/ CallSubmit
    \/ \E k \in 1..MaxSubmissions, hook \in HookResults : HookDone(k, hook)
    \/ \E k \in 1..MaxSubmissions, outcome \in FormOutcomes : FormRespond(k, outcome)

SpecForm == FormInit /\ [][FormNext]_vars


\* The events among what a _handleSubmit invocation did.
Events(trace) ==
    SelectSeq(trace, LAMBDA e : e \in {"beforeSubmit", "success", "error", "afterSubmit"})

\* C26: a submission that beforeSubmit did not cancel emitted 'beforeSubmit',
\* then exactly one of 'success' and 'error', then 'afterSubmit', and the
\* success flag of afterSubmit is true exactly when it emitted 'success'.
C26_EventOrder ==
    formSubmit.last.ended \in {"returned", "threw"} =>
        /\ Events(formSubmit.last.trace) \in
              {<<"beforeSubmit", "success", "afterSubmit">>,
               <<"beforeSubmit", "error", "afterSubmit">>}
        /\ formSubmit.last.flag = "true" <=> Events(formSubmit.last.trace)[2] = "success"

\* C27: when the awaited beforeSubmit hook returns false or throws, the
\* invocation ends there: it sent no request, emitted no event, and left the
\* button's disabled flag and label as they were.
C27_CancelledSubmissionDoesNothing ==
    [][formSubmit'.last.hook \in {"false", "throws"} =>
          /\ formSubmit'.last.ended = "abandoned"
          /\ formSubmit'.last.trace = <<>>
          /\ Len(formSubmit'.submissions) = Len(formSubmit.submissions) - 1
          /\ formSubmit'.disabled = formSubmit.disabled
          /\ formSubmit'.text = formSubmit.text]_vars

\* C27: a hook returned false, nothing is pending and the button is as it was
\* at construction.
C27_Witness ==
    /\ formSubmit.last.hook = "false"
    /\ formSubmit.submissions = <<>>
    /\ ~formSubmit.disabled
    /\ formSubmit.text = Label

\* C28: once no submission is pending the button is enabled and shows the
\* label it had at construction, unless disableOnSuccess is set and a
\* submission succeeded.
C28_ButtonRestored ==
    (/\ formSubmit.phase = "ready"
     /\ formSubmit.config.button
     /\ formSubmit.submissions = <<>>
     /\ ~(formSubmit.config.disableOnSuccess /\ formSubmit.succeeded)) =>
        (~formSubmit.disabled /\ formSubmit.text = Label)

\* C29: without buttonOnly and without a form the constructor throws 'Form
\* element not found.', and an instance is in button-only mode only when
\* buttonOnly is set.
C29_FormRequiredUnlessButtonOnly ==
    formSubmit.phase # "new" =>
        /\ (~formSubmit.config.buttonOnly /\ ~formSubmit.config.form) =>
              (formSubmit.phase = "threw" /\ formSubmit.error = <<"Form element not found.">>)
        /\ (formSubmit.phase = "ready" /\ formSubmit.isButtonOnly) =>
              formSubmit.config.buttonOnly


(***************************************************************************)
(* EditContent  (src/unnamed/part_005 523-678)                             *)
(* The instance is one record: the transport found, whether the cancel     *)
(* button and the header resolve, the form's data-action attribute, its    *)
(* action, its data-edit-mode attribute, the header's and the submit       *)
(* button's text, the cancel button's hidden class, this.editMode, the     *)
(* click handlers waiting for their request, and the step made last.       *)
(***************************************************************************)
MaxEdits == 2

\* The items whose edit button carries a data-href.
EditItems == {"i1", "i2"}

EditUrl(item) == <<"/items/", item>>

AddUrl == <<"/items">>

\* What the GET of an edit button can come to: a 2xx JSON answer, a JSON
\* answer with an error status, no answer.
EditOutcomes == {"ok", "http-error", "network"}

\* _fillForm(data, config): action, title and button text when the config
\* carries them, then data-edit-mode from this.editMode as it is now.
fillForm(e, config) ==
    [e EXCEPT !.action = IF config.action # <<>> THEN config.action ELSE @,
              !.title = IF e.header /\ config.title # <<>> THEN config.title ELSE @,
              !.buttonText = IF config.buttonText # <<>> THEN config.buttonText ELSE @,
              !.dataEditMode = IF e.editMode THEN "true" ELSE "false"]

\* resetToAddMode(): form.dataset.action is undefined without a data-action
\* attribute.
resetToAddMode(e) ==
    [fillForm(e, [action |-> e.dataAction, title |-> e.addTitle,
                  buttonText |-> e.addButtonText])
     EXCEPT !.cancelHidden = IF e.cancelButton THEN TRUE ELSE @,
            !.editMode = FALSE]

\* The click handler after its await, with the data loaded (lines 602-610).
editLoaded(e, url) ==
    [fillForm(e, [action |-> url, title |-> e.editTitle, buttonText |-> e.editButtonText])
     EXCEPT !.cancelHidden = IF e.cancelButton THEN FALSE ELSE @,
            !.editMode = TRUE]

EditInit ==
    /\ \E backend \in {"axios", "fetch"}, cancel \in BOOLEAN, header \in BOOLEAN,
          dataAction \in {<<>>, AddUrl}, attr \in {"none", "false"} :
          editContent = [transport |-> backend, cancelButton |-> cancel, header |-> header,
                         dataAction |-> dataAction, action |-> AddUrl,
                         dataEditMode |-> attr,
                         addTitle |-> <<"Add">>, editTitle |-> <<"Edit">>,
                         addButtonText |-> <<"Save">>, editButtonText |-> <<"Edit">>,
                         title |-> IF header THEN <<"Add">> ELSE <<>>,
                         buttonText |-> <<"Save">>, cancelHidden |-> TRUE,
                         editMode |-> FALSE, requests |-> <<>>, last |-> "constructor"]
    /\ selectMultiple = <<>>
    /\ deleteContent = <<>>
    /\ imageInput = <<>>
    /\ formSubmit = <<>>
    /\ args = <<>>
    /\ result = <<>>
    /\ pc = "idle"
    /\ qFilters = <<>>
    /\ qParams = [fn |-> FALSE, ret |-> <<>>]
    /\ qPage = 1
    /\ qOut = <<>>
    /\ qPc = "idle"
    /\ opt = [widget |-> "none"]
    /\ listening = FALSE
    /\ phase = "idle"
    /\ thrower = "none"
    /\ dom = <<>>
    /\ filters = <<>>
    /\ lastMeta = <<>>
    /\ inputs = <<>>
    /\ timers = {}
    /\ debounceTimer = -1
    /\ calls = <<>>
    /\ started = <<>>
    /\ settled = <<>>
    /\ burst = <<>>

editOthers == <<selectMultiple, deleteContent, imageInput, formSubmit,
                queryVars, ajaxVars, pureVars>>

\* An edit button is clicked (lines 585-598): the request for its data-href.
ClickEdit(item) ==
    /\ Len(editContent.requests) < MaxEdits
    /\ editContent' = [editContent EXCEPT !.requests = Append(@, EditUrl(item)),
                                          !.last = "click"]
    /\ UNCHANGED editOthers

\* The request of a waiting click handler settles (lines 595-616): axios
\* rejects on an error status, fetch does not.
EditRespond(k, outcome) ==
    /\ k \in DOMAIN editContent.requests
    /\ LET rest == [j \in 1..(Len(editContent.requests) - 1) |->
                       IF j < k THEN editContent.requests[j]
                       ELSE editContent.requests[j + 1]]
           e == [editContent EXCEPT !.requests = rest]
       IN  editContent' =
              IF outcome = "ok" \/ (outcome = "http-error" /\ e.transport = "fetch")
              THEN [editLoaded(e, editContent.requests[k]) EXCEPT !.last = "loaded"]
              ELSE [e EXCEPT !.last = "failed"]
    /\ UNCHANGED editOthers

\* The cancel button, once revealed, is clicked (line 623).
ClickEditCancel ==
    /\ editContent.cancelButton /\ ~editContent.cancelHidden
    /\ editContent' = [resetToAddMode(editContent) EXCEPT !.last = "reset"]
    /\ UNCHANGED editOthers

\* resetToAddMode() called by the page.
CallResetToAddMode ==
    /\ editContent' = [resetToAddMode(editContent) EXCEPT !.last = "reset"]
    /\ UNCHANGED editOthers

EditNext ==
    \/ \E item \in EditItems : ClickEdit(item)
    \/ \E k \in 1..MaxEdits, outcome \in EditOutcomes : EditRespond(k, outcome)
    \/ ClickEditCancel
    \/ CallResetToAddMode

SpecEdit == EditInit /\ [][EditNext]_vars

\* C30: whenever no edit request is being processed, the form's
\* data-edit-mode attribute is 'true' exactly when editMode is true.
C30_AttributeMatchesEditMode ==
    editContent.requests = <<>> =>
        (editContent.dataEditMode = "true" <=> editContent.editMode)


\* C31: right after resetToAddMode (cancel) the add-mode UI is back: header
\* title and submit-button text are the add-mode values, the cancel button is
\* hidden, editMode is false and the form's action is the add-mode action, not
\* an item's edit URL.
C31_CancelRestoresAddMode ==
    editContent.last = "reset" =>
        /\ ~editContent.editMode
        /\ editContent.cancelHidden
        /\ editContent.buttonText = editContent.addButtonText
        /\ editContent.header => editContent.title = editContent.addTitle
        /\ editContent.action = AddUrl


\* C32: whatever toggles, badge removals, selectValues, disableOption,
\* enableOption, clearDisabledOptions and resets are made, no value is both in
\* the selection Set and in the disabled Set.
C32_SelectedAndDisabledDisjoint ==
    selectMultiple.selections \cap selectMultiple.disabledOptions = {}

====
